---- MODULE Spec2Model ----
(***************************************************************************)
(* findr: the meta-search backend (core/backend.ts), its plugin registry   *)
(* (core/plugins.ts) and its disk-backed key/value cache                   *)
(* (core/keyValueStorage.ts), as a state machine.                          *)
(*                                                                         *)
(* Promises are modelled by the state of the awaited operation; every      *)
(* action is one stretch of synchronous code between two suspension points.*)
(***************************************************************************)
EXTENDS Integers, Sequences, FiniteSets, TLC

\* ------------------------------------------------------------------ bounds
MaxTime == 2
MaxPersist == 7
MaxSearches == 2
MaxCalls == 4
MaxFaults == 1

\* ------------------------------------------------------- program constants
CACHE_FILE_VERSION == 1

\* JavaScript's undefined for an optional number (score?, timestamp?, expiresAt?).
Undefined == -1

\* ------------------------------------------------------------------ helpers
Range(s) == {s[i] : i \in DOMAIN s}

Min(S) == CHOOSE x \in S : \A y \in S : x <= y

EmptyMap == [k \in {} |-> 0]

RECURSIVE SumSeq(_)
SumSeq(s) == IF s = <<>> THEN 0 ELSE Head(s) + SumSeq(Tail(s))

InsertAt(s, i, x) == SubSeq(s, 1, i - 1) \o <<x>> \o SubSeq(s, i, Len(s))

\* --------------------------------------------------------------- the domain
\* Provider ids, in registration order of the Backend constructor.
PluginDefs == <<"beta", "gamma", "alpha">>

PluginIds == Range(PluginDefs)

\* String.prototype.localeCompare on the provider ids: -1, 0 or 1.
IdRank(id) == CASE id = "alpha" -> 1 [] id = "beta" -> 2 [] id = "gamma" -> 3

localeCompare(a, b) ==
  IF IdRank(a) < IdRank(b) THEN -1 ELSE IF IdRank(a) > IdRank(b) THEN 1 ELSE 0

\* Cache clients: the fetch task of the i-th enabled provider, or the i-th
\* direct caller of the storage.
CallerIds == 1 .. Len(PluginDefs)

VARIABLES
  \* KeyValueStorage
  entries,      \* Map<string, CacheEntry>
  isLoaded,
  loadStage,    \* loadPromise and the position of loadFromDisk inside it
  loadTask,     \* the write loadFromDisk awaits after pruning
  writeChain,   \* 0: a resolved promise; i: the chain promise made by persist call i
  writeTasks,   \* the writeTask promise of every persist call so far
  disk,         \* the backing file
  ttlMs,
  calls,        \* the get/set call each client has in progress
  loadWaiters,  \* continuations waiting behind ensureLoaded, in call order
  now,          \* Date.now()
  nCalls,       \* storage calls made by direct callers
  faults        \* file operations that have failed

cacheVars ==
  <<entries, isLoaded, loadStage, loadTask, writeChain, writeTasks, disk, ttlMs,
    calls, loadWaiters, now, nCalls, faults>>

\* ------------------------------------------------------- KeyValueStorage
NoCall ==
  [op |-> "none", stage |-> "none", key |-> "", value |-> <<>>, hit |-> FALSE,
   task |-> 0, viaPromise |-> FALSE]

\* The backing file; `writer` notes which write task produced its content (0: none
\* of this instance).
AbsentFile ==
  [exists |-> FALSE, parses |-> TRUE, version |-> 0, entries |-> EmptyMap, writer |-> 0]

DEFAULT_TTL_MS == 86400000

\* resolveTtl(options.ttlMs), with FINDR_CACHE_TTL_MS already parsed (Undefined: unset
\* or not a non-negative integer)
resolveTtl(configuredTtl, envTtl) ==
  IF configuredTtl # Undefined
  THEN IF configuredTtl >= 0 THEN configuredTtl ELSE Undefined
  ELSE IF envTtl # Undefined THEN envTtl
  ELSE DEFAULT_TTL_MS

CacheEntry(value, cachedAt, expiresAt) ==
  [value |-> value, cachedAt |-> cachedAt, expiresAt |-> expiresAt]

MapSetIfAbsent(m, k, v) ==
  [x \in DOMAIN m \cup {k} |-> IF x \in DOMAIN m THEN m[x] ELSE v]

MapSet(m, k, v) == [x \in DOMAIN m \cup {k} |-> IF x = k THEN v ELSE m[x]]

MapDelete(m, k) == [x \in DOMAIN m \ {k} |-> m[x]]

isExpiredInverted(entry, ttl, t) ==
  IF entry.expiresAt # Undefined THEN entry.expiresAt >= t
  ELSE IF ttl # Undefined /\ ttl > 0 THEN entry.cachedAt + ttl >= t
  ELSE FALSE

isExpiredStrict(entry, ttl, t) ==
  IF entry.expiresAt # Undefined THEN entry.expiresAt < t
  ELSE IF ttl # Undefined /\ ttl > 0 THEN entry.cachedAt + ttl < t
  ELSE FALSE

isExpiredZeroTtl(entry, ttl, t) ==
  IF entry.expiresAt # Undefined THEN entry.expiresAt <= t
  ELSE IF ttl # Undefined THEN entry.cachedAt + ttl <= t
  ELSE FALSE

isExpired(entry, ttl, t) ==
  IF entry.expiresAt # Undefined THEN entry.expiresAt <= t
  ELSE IF ttl # Undefined /\ ttl > 0 THEN entry.cachedAt + ttl <= t
  ELSE FALSE

pruneExpiredEntries(m, ttl, t) ==
  [k \in {x \in DOMAIN m : ~isExpired(m[x], ttl, t)} |-> m[k]]

\* The promise persist() leaves in writeChain: writeTask.catch(...) of call i.
ChainResolved(ws, i) == IF i = 0 THEN TRUE ELSE ws[i].state = "ok"

ChainRejected(ws, i) == IF i = 0 THEN FALSE ELSE ws[i].state \in {"failed", "skipped"}

TaskSettled(ws, i) == ws[i].state \in {"ok", "failed", "skipped"}

\* persist(): writeTask = writeChain.then(writeToDisk); writeChain = writeTask.catch(...)
persist(ws, chain) ==
  [tasks |-> Append(ws, [state |-> "waiting", pred |-> chain, payload |-> EmptyMap]),
   chain |-> Len(ws) + 1]

CanPersist == Len(writeTasks) < MaxPersist

\* The synchronous start of get()/set(): ensureLoaded() up to its await.
BeginCall(cs, c, op, key, value) ==
  [cs EXCEPT ![c] =
     [op |-> op, stage |-> "awaitLoad", key |-> key, value |-> value, hit |-> FALSE,
      task |-> 0, viaPromise |-> ~isLoaded]]

StartsLoadEveryCall == ~isLoaded

StartsLoad == ~isLoaded /\ loadStage = "none"

\* loadFromDisk: await fileExists(path)
LoadExists ==
  /\ loadStage = "exists"
  /\ loadStage' = IF disk.exists THEN "read" ELSE "ok"
  /\ isLoaded' = ~disk.exists
  /\ UNCHANGED <<entries, loadTask, writeChain, writeTasks, disk, ttlMs, calls,
                 loadWaiters, now, nCalls, faults>>

\* fileExists throws, outside the try block: loadFromDisk rejects and the finally
\* of ensureLoaded marks the storage loaded
LoadExistsThrows ==
  /\ loadStage = "exists"
  /\ faults < MaxFaults
  /\ faults' = faults + 1
  /\ loadStage' = "err"
  /\ isLoaded' = TRUE
  /\ UNCHANGED <<entries, loadTask, writeChain, writeTasks, disk, ttlMs, calls,
                 loadWaiters, now, nCalls>>

ParsedEntriesAnyVersion(file) == IF file.parses THEN file.entries ELSE EmptyMap

ParsedEntries(file) ==
  IF file.parses /\ file.version = CACHE_FILE_VERSION THEN file.entries ELSE EmptyMap

\* loadFromDisk: read, parse, fill the table, prune, persist when pruned
LoadRead ==
  /\ loadStage = "read"
  /\ \E readOk \in BOOLEAN :
       LET loaded == IF readOk THEN ParsedEntries(disk) ELSE EmptyMap
           merged == [k \in DOMAIN entries \cup DOMAIN loaded |->
                        IF k \in DOMAIN loaded THEN loaded[k] ELSE entries[k]]
           pruned == pruneExpiredEntries(merged, ttlMs, now)
           p == persist(writeTasks, writeChain)
       IN /\ readOk \/ faults < MaxFaults
          /\ faults' = IF readOk THEN faults ELSE faults + 1
          /\ entries' = pruned
          /\ IF pruned # merged
             THEN /\ CanPersist
                  /\ writeTasks' = p.tasks
                  /\ writeChain' = p.chain
                  /\ loadTask' = p.chain
                  /\ loadStage' = "persist"
                  /\ UNCHANGED isLoaded
             ELSE /\ loadStage' = "ok"
                  /\ isLoaded' = TRUE
                  /\ UNCHANGED <<writeTasks, writeChain, loadTask>>
  /\ UNCHANGED <<disk, ttlMs, calls, loadWaiters, now, nCalls>>

\* loadFromDisk: the awaited persist settles; ensureLoaded's finally runs
LoadPersisted ==
  /\ loadStage = "persist"
  /\ TaskSettled(writeTasks, loadTask)
  /\ loadStage' = IF writeTasks[loadTask].state = "ok" THEN "ok" ELSE "err"
  /\ isLoaded' = TRUE
  /\ UNCHANGED <<entries, loadTask, writeChain, writeTasks, disk, ttlMs, calls,
                 loadWaiters, now, nCalls, faults>>

\* get()/set() after `await this.ensureLoaded()`
ResumeCall(c) ==
  /\ loadWaiters # <<>>
  /\ c = Head(loadWaiters)
  /\ isLoaded
  /\ loadWaiters' = Tail(loadWaiters)
  /\ LET call == calls[c]
         p == persist(writeTasks, writeChain)
         expiresAt == IF ttlMs # Undefined /\ ttlMs > 0 THEN now + ttlMs ELSE Undefined
     IN IF call.viaPromise /\ loadStage = "err"
        THEN /\ calls' = [calls EXCEPT ![c].stage = "threw"]
             /\ UNCHANGED <<entries, writeTasks, writeChain>>
        ELSE IF call.op = "set"
        THEN /\ CanPersist
             /\ entries' = MapSet(entries, call.key, CacheEntry(call.value, now, expiresAt))
             /\ writeTasks' = p.tasks
             /\ writeChain' = p.chain
             /\ calls' = [calls EXCEPT ![c].stage = "awaitWrite", ![c].task = p.chain]
        ELSE IF call.key \notin DOMAIN entries
        THEN /\ calls' = [calls EXCEPT ![c].stage = "returned", ![c].hit = FALSE]
             /\ UNCHANGED <<entries, writeTasks, writeChain>>
        ELSE IF isExpired(entries[call.key], ttlMs, now)
        THEN /\ CanPersist
             /\ entries' = MapDelete(entries, call.key)
             /\ writeTasks' = p.tasks
             /\ writeChain' = p.chain
             /\ calls' = [calls EXCEPT ![c].stage = "awaitWrite", ![c].task = p.chain]
        ELSE /\ calls' = [calls EXCEPT ![c].stage = "returned", ![c].hit = TRUE,
                                       ![c].value = entries[call.key].value]
             /\ UNCHANGED <<entries, writeTasks, writeChain>>
  /\ UNCHANGED <<isLoaded, loadStage, loadTask, disk, ttlMs, now, nCalls, faults>>

\* get()/set() after `await this.persist()`
AwaitWrite(c) ==
  /\ calls[c].stage = "awaitWrite"
  /\ TaskSettled(writeTasks, calls[c].task)
  /\ calls' = [calls EXCEPT ![c].stage =
                 IF writeTasks[calls[c].task].state = "ok" THEN "returned" ELSE "threw"]
  /\ UNCHANGED <<entries, isLoaded, loadStage, loadTask, writeChain, writeTasks, disk,
                 ttlMs, loadWaiters, now, nCalls, faults>>

\* The promise of a get()/set() call has settled; whether it rejected.
CallSettled(c) ==
  \/ calls[c].stage \in {"returned", "threw"}
  \/ calls[c].stage = "awaitWrite" /\ TaskSettled(writeTasks, calls[c].task)

CallThrew(c) ==
  IF calls[c].stage = "awaitWrite"
  THEN writeTasks[calls[c].task].state # "ok"
  ELSE calls[c].stage = "threw"

\* writeChain.then(() => this.writeToDisk()): the payload is built and the write begins
WriteStart(i) ==
  /\ writeTasks[i].state = "waiting"
  /\ ChainResolved(writeTasks, writeTasks[i].pred)
  /\ writeTasks' = [writeTasks EXCEPT ![i].state = "writing", ![i].payload = entries]
  /\ UNCHANGED <<entries, isLoaded, loadStage, loadTask, writeChain, disk, ttlMs, calls,
                 loadWaiters, now, nCalls, faults>>

\* writeTextFile resolves: the file holds the payload
WriteOk(i) ==
  /\ writeTasks[i].state = "writing"
  /\ writeTasks' = [writeTasks EXCEPT ![i].state = "ok"]
  /\ disk' = [exists |-> TRUE, parses |-> TRUE, version |-> CACHE_FILE_VERSION,
              entries |-> writeTasks[i].payload, writer |-> i]
  /\ UNCHANGED <<entries, isLoaded, loadStage, loadTask, writeChain, ttlMs, calls,
                 loadWaiters, now, nCalls, faults>>

\* writeTextFile rejects: writeTask rejects and the catch handler of persist runs
WriteFail(i) ==
  /\ writeTasks[i].state = "writing"
  /\ faults < MaxFaults
  /\ faults' = faults + 1
  /\ writeTasks' = [writeTasks EXCEPT ![i].state = "failed"]
  /\ writeChain' = 0
  /\ UNCHANGED <<entries, isLoaded, loadStage, loadTask, disk, ttlMs, calls,
                 loadWaiters, now, nCalls>>

\* the chain a write waits on has rejected: writeTask rejects without writing and
\* its own catch handler runs
WriteSkip(i) ==
  /\ writeTasks[i].state = "waiting"
  /\ ChainRejected(writeTasks, writeTasks[i].pred)
  /\ writeTasks' = [writeTasks EXCEPT ![i].state = "skipped"]
  /\ writeChain' = 0
  /\ UNCHANGED <<entries, isLoaded, loadStage, loadTask, disk, ttlMs, calls,
                 loadWaiters, now, nCalls, faults>>

Tick ==
  /\ now < MaxTime
  /\ now' = now + 1
  /\ UNCHANGED <<entries, isLoaded, loadStage, loadTask, writeChain, writeTasks, disk,
                 ttlMs, calls, loadWaiters, nCalls, faults>>

\* A direct caller of the storage calls get(key) or set(key, value).
ClientCall(c, op, key, value) ==
  /\ calls[c].op = "none"
  /\ nCalls < MaxCalls
  /\ nCalls' = nCalls + 1
  /\ calls' = BeginCall(calls, c, op, key, value)
  /\ loadWaiters' = Append(loadWaiters, c)
  /\ loadStage' = IF StartsLoad THEN "exists" ELSE loadStage
  /\ UNCHANGED <<entries, isLoaded, loadTask, writeChain, writeTasks, disk, ttlMs, now,
                 faults>>

\* The caller's continuation takes the result of its call.
ClientReturn(c) ==
  /\ calls[c].stage \in {"returned", "threw"}
  /\ calls' = [calls EXCEPT ![c] = NoCall]
  /\ UNCHANGED <<entries, isLoaded, loadStage, loadTask, writeChain, writeTasks, disk,
                 ttlMs, loadWaiters, now, nCalls, faults>>

\* ------------------------------------------------- ResultAggregator, sorting
DisplayName(id) ==
  CASE id = "alpha" -> "Alpha" [] id = "beta" -> "Beta" [] id = "gamma" -> "Gamma"

RawResult(url, title, score, timestamp) ==
  [url |-> url, title |-> title, score |-> score, timestamp |-> timestamp]

scoreFallback(result) == IF result.score # Undefined THEN result.score ELSE 0

timestampFallback(result) ==
  IF result.timestamp # Undefined THEN result.timestamp ELSE result.receivedAt

\* Object.assign(a, b) on the optional fields: a property b lacks keeps a's value.
ObjectAssign(a, b) ==
  [url |-> b.url, title |-> b.title,
   score |-> IF b.score # Undefined THEN b.score ELSE a.score,
   timestamp |-> IF b.timestamp # Undefined THEN b.timestamp ELSE a.timestamp]

RECURSIVE AssignAll(_, _)
AssignAll(combined, rest) ==
  IF rest = <<>> THEN combined
  ELSE AssignAll(ObjectAssign(combined, Head(rest).result), Tail(rest))

buildCombinedResult(pluginEntries) == AssignAll(pluginEntries[1].result, Tail(pluginEntries))

RECURSIVE findIndex(_, _, _)
\* entry.pluginEntries.findIndex(existing => pluginId.localeCompare(existing.pluginId) > 0)
findIndex(pluginEntries, pluginId, i) ==
  IF i > Len(pluginEntries) THEN 0
  ELSE IF localeCompare(pluginId, pluginEntries[i].pluginId) > 0 THEN i
  ELSE findIndex(pluginEntries, pluginId, i + 1)

EntryIndexNone(agg, url, i) == 0

RECURSIVE EntryIndex(_, _, _)
\* this.entries.get(result.url): the position of the url's entry in the Map, 0 if none
EntryIndex(agg, url, i) ==
  IF i > Len(agg) THEN 0
  ELSE IF agg[i].url = url THEN i
  ELSE EntryIndex(agg, url, i + 1)

insertPluginEntryAppend(pluginEntries, pluginEntry) == Append(pluginEntries, pluginEntry)

insertPluginEntry(pluginEntries, pluginEntry) ==
  LET insertIndex == findIndex(pluginEntries, pluginEntry.pluginId, 1)
  IN IF insertIndex = 0 THEN Append(pluginEntries, pluginEntry)
     ELSE InsertAt(pluginEntries, insertIndex, pluginEntry)

\* The significand of a JavaScript number, scaled down from 53 bits.
SignificandBits == 3

RECURSIVE Ulp(_, _)
\* the spacing of the representable numbers around n >= 0, found upwards from u
Ulp(n, u) == IF n \div u < 2 ^ SignificandBits THEN u ELSE Ulp(n, 2 * u)

\* the representable number nearest to n >= 0, ties to the even significand
fpRound(n) ==
  LET u == Ulp(n, 1)
      q == n \div u
      r == n % u
  IN IF 2 * r < u THEN q * u
     ELSE IF 2 * r > u THEN (q + 1) * u
     ELSE IF q % 2 = 0 THEN q * u
     ELSE (q + 1) * u

\* a + b on JavaScript numbers
fpAdd(a, b) == fpRound(a + b)

addScoreOverwrite(entry, result) ==
  IF result.score # Undefined
  THEN [entry EXCEPT !.hasScore = TRUE, !.scoreTotal = result.score]
  ELSE entry

addScore(entry, result) ==
  IF result.score # Undefined
  THEN [entry EXCEPT !.hasScore = TRUE, !.scoreTotal = fpAdd(@, result.score)]
  ELSE entry

\* one iteration of the loop of addResults
addResult(agg, pluginId, pluginDisplayName, result) ==
  LET found == EntryIndex(agg, result.url, 1)
      fresh == [url |-> result.url, pluginEntries |-> <<>>, dirty |-> TRUE,
                hasScore |-> FALSE, scoreTotal |-> 0, combined |-> result]
      agg1 == IF found = 0 THEN Append(agg, fresh) ELSE agg
      idx == IF found = 0 THEN Len(agg1) ELSE found
      pluginEntry == [pluginId |-> pluginId, pluginDisplayName |-> pluginDisplayName,
                      result |-> result]
      entry1 == [agg1[idx] EXCEPT
                   !.pluginEntries = insertPluginEntry(@, pluginEntry)]
      entry2 == [addScore(entry1, result) EXCEPT !.dirty = TRUE]
  IN [agg1 EXCEPT ![idx] = entry2]

RECURSIVE addResultsLoopDedup(_, _, _, _)
addResultsLoopDedup(agg, pluginId, pluginDisplayName, results) ==
  IF results = <<>> THEN agg
  ELSE LET seen == \E i \in DOMAIN agg :
                     /\ agg[i].url = Head(results).url
                     /\ \E j \in DOMAIN agg[i].pluginEntries :
                          agg[i].pluginEntries[j].pluginId = pluginId
       IN addResultsLoopDedup(
            IF seen THEN agg
            ELSE addResult(agg, pluginId, pluginDisplayName, Head(results)),
            pluginId, pluginDisplayName, Tail(results))

RECURSIVE addResultsLoop(_, _, _, _)
addResultsLoop(agg, pluginId, pluginDisplayName, results) ==
  IF results = <<>> THEN agg
  ELSE addResultsLoop(addResult(agg, pluginId, pluginDisplayName, Head(results)),
                      pluginId, pluginDisplayName, Tail(results))

addResultsRebuilding(agg, pluginId, pluginDisplayName, results) ==
  addResultsLoop(<<>>, pluginId, pluginDisplayName, results)

addResults(agg, pluginId, pluginDisplayName, results) ==
  IF Len(results) = 0 THEN agg
  ELSE addResultsLoop(agg, pluginId, pluginDisplayName, results)

\* getResults: refresh the dirty entries' combined result ...
refreshCombined(agg) ==
  [i \in 1 .. Len(agg) |->
     IF agg[i].dirty
     THEN [agg[i] EXCEPT !.combined = buildCombinedResult(agg[i].pluginEntries),
                         !.dirty = FALSE]
     ELSE agg[i]]

\* ... and build one SearchResult per entry, in the Map's insertion order
getResults(agg, receivedAt) ==
  LET fresh == refreshCombined(agg)
  IN [i \in 1 .. Len(agg) |->
        [url |-> fresh[i].combined.url,
         title |-> fresh[i].combined.title,
         timestamp |-> fresh[i].combined.timestamp,
         score |-> IF fresh[i].hasScore THEN fresh[i].scoreTotal ELSE Undefined,
         id |-> i - 1,
         pluginIds |-> [j \in 1 .. Len(fresh[i].pluginEntries) |->
                          fresh[i].pluginEntries[j].pluginId],
         pluginDisplayNames |-> [j \in 1 .. Len(fresh[i].pluginEntries) |->
                                   fresh[i].pluginEntries[j].pluginDisplayName],
         receivedAt |-> receivedAt]]

RECURSIVE CompareIdLists(_, _)
\* a.pluginIds.join(", ").localeCompare(b.pluginIds.join(", "))
CompareIdLists(a, b) ==
  IF a = <<>> /\ b = <<>> THEN 0
  ELSE IF a = <<>> THEN -1
  ELSE IF b = <<>> THEN 1
  ELSE IF localeCompare(Head(a), Head(b)) # 0 THEN localeCompare(Head(a), Head(b))
  ELSE CompareIdLists(Tail(a), Tail(b))

compareByScore(a, b, order) == scoreFallback(b) - scoreFallback(a)

\* the comparator sortResults hands to Array.prototype.sort
compare(a, b, order) ==
  IF order = "recency"
  THEN IF timestampFallback(b) - timestampFallback(a) # 0
       THEN timestampFallback(b) - timestampFallback(a)
       ELSE scoreFallback(b) - scoreFallback(a)
  ELSE IF order = "source"
  THEN IF Len(b.pluginIds) - Len(a.pluginIds) # 0
       THEN Len(b.pluginIds) - Len(a.pluginIds)
       ELSE IF CompareIdLists(a.pluginIds, b.pluginIds) # 0
       THEN CompareIdLists(a.pluginIds, b.pluginIds)
       ELSE scoreFallback(b) - scoreFallback(a)
  ELSE IF Len(b.pluginIds) - Len(a.pluginIds) # 0
       THEN Len(b.pluginIds) - Len(a.pluginIds)
       ELSE IF scoreFallback(b) - scoreFallback(a) # 0
       THEN scoreFallback(b) - scoreFallback(a)
       ELSE timestampFallback(b) - timestampFallback(a)

RECURSIVE InsertBeforeEqual(_, _, _)
InsertBeforeEqual(sorted, x, order) ==
  IF sorted = <<>> THEN <<x>>
  ELSE IF compare(x, Head(sorted), order) <= 0 THEN <<x>> \o sorted
  ELSE <<Head(sorted)>> \o InsertBeforeEqual(Tail(sorted), x, order)

RECURSIVE StableInsert(_, _, _)
\* x goes behind every element it does not sort strictly before (a stable sort)
StableInsert(sorted, x, order) ==
  IF sorted = <<>> THEN <<x>>
  ELSE IF compare(x, Head(sorted), order) < 0 THEN <<x>> \o sorted
  ELSE <<Head(sorted)>> \o StableInsert(Tail(sorted), x, order)

RECURSIVE SortInto(_, _, _)
SortInto(sorted, rest, order) ==
  IF rest = <<>> THEN sorted
  ELSE SortInto(StableInsert(sorted, Head(rest), order), Tail(rest), order)

sortResults(results, order) == SortInto(<<>>, results, order)

\* ------------------------------------------------------------- the providers
Queries == {"q"}

Limits == {Undefined, 1}

SortOrders == {"relevance", "recency", "source"}

\* What the providers find for the query "tie": two urls that alpha and beta both
\* return, in opposite orders and with equal scores, and no timestamps.
TiedData(id) ==
  CASE id = "alpha" -> <<RawResult("u4", "Alpha Four", 1, Undefined),
                         RawResult("u5", "Alpha Five", 1, Undefined)>>
    [] id = "beta"  -> <<RawResult("u5", "Beta Five", 1, Undefined),
                         RawResult("u4", "Beta Four", 1, Undefined)>>
    [] id = "gamma" -> <<RawResult("u6", "Gamma Six", 3, 30)>>

\* What the providers find for the query "sum": one url that all three return, with
\* scores whose sum is not representable at every step.
SummedData(id) ==
  CASE id = "alpha" -> <<RawResult("u7", "Alpha Seven", 1, 5)>>
    [] id = "beta"  -> <<RawResult("u7", "Beta Seven", 1, Undefined)>>
    [] id = "gamma" -> <<RawResult("u7", "Gamma Seven", 8, 7)>>

\* What each provider finds for a query.
ProviderFinds(id, query) ==
  IF query = "tie" THEN TiedData(id) ELSE
  IF query = "sum" THEN SummedData(id) ELSE
  CASE id = "alpha" -> <<RawResult("u1", "Shared Alpha", 5, 50),
                         RawResult("u2", "Alpha Only", 1, Undefined),
                         RawResult("u2", "Alpha Again", 2, Undefined)>>
    [] id = "beta"  -> <<RawResult("u1", "Shared Beta", 3, 75),
                         RawResult("u3", "Beta Only", Undefined, 20)>>
    [] id = "gamma" -> <<RawResult("u3", "Gamma First", Undefined, Undefined),
                         RawResult("u3", "Gamma Again", Undefined, 10)>>

Take(s, limit) == IF limit = Undefined \/ limit >= Len(s) THEN s ELSE SubSeq(s, 1, limit)

\* A provider that listens on the signal and rejects with signal.reason on abort
\* (the test providers), against one that only checks signal.aborted when called
\* and then answers [] (plugins/mock.ts, the brave provider).
RejectsOnAbort(id) == id \in {"alpha", "gamma"}

AbortReason == "AbortError"

ProviderFailure == "Error"

LimitString(limit) == IF limit = Undefined THEN "" ELSE IF limit = 1 THEN "1" ELSE "n"

getCacheKey(pluginId, query, limit) ==
  pluginId \o "-" \o query \o "-" \o LimitString(limit)

VARIABLES
  \* PluginManager
  plugins,         \* Map<string, PluginRegistration>, in insertion order
  outcome,         \* how the last call a client made on the PluginManager ended
  \* one searchStream generator and its consumer
  genState,        \* "idle", "racing" (awaiting Promise.race), "yielded", "done"
  opts,            \* query, limit, sortOrder
  extSignal,       \* options.signal: "fresh", "aborted" (before the search), "fired"
  listening,       \* handleExternalAbort is registered on options.signal
  ctrlAborted,     \* abortController.signal.aborted
  enabledPlugins,
  tasks,           \* the promise of each fetch task
  pending,
  raceWinner,      \* the task that settled the Promise.race in progress, 0 if none yet
  aggregator,
  errors,
  snapshots,       \* what the generator has yielded
  abortListeners,  \* provider calls listening on the controller's signal, in call order
  \* observations
  searchCalls,     \* invocations of each provider's search operation
  settleOrder,     \* the fetch tasks of this search in the order they settled
  foldOrder,       \* ... and in the order the loop processed them
  inFlightAtAbort, \* the tasks not yet settled when the caller's signal fired
  searchNo,
  succeeded,       \* (provider, query, limit) of successful fetches of finished searches
  \* the App component
  appState,           \* useReducer(appReducer, ...)
  searches,           \* the performSearch calls so far, each with its AbortController
  abortControllerRef  \* abortControllerRef.current: the latest call, 0 if none

uiVars == <<appState, searches, abortControllerRef>>

backendVars ==
  <<plugins, outcome, genState, opts, extSignal, listening, ctrlAborted,
    enabledPlugins, tasks, pending, raceWinner, aggregator, errors, snapshots, abortListeners, searchCalls,
    settleOrder, foldOrder, inFlightAtAbort, searchNo, succeeded>>

searchVars == <<backendVars, uiVars>>

vars == <<cacheVars, searchVars>>

\* What each provider finds for the query of the search in progress; its search
\* operation returns the first `limit` of them.
ProviderData(id) == ProviderFinds(id, opts.query)

\* ------------------------------------------------------------ PluginManager
\* A SearchPlugin object: isEnabledByDefault is an optional property.
Plugin(id, isEnabledByDefault) == [id |-> id, isEnabledByDefault |-> isEnabledByDefault]

PluginNoFlag(id) == [id |-> id]

\* this.plugins.has(id)
has(registry, id) == \E i \in 1 .. Len(registry) : registry[i].id = id

\* this.plugins.get(id), for an id the Map has
get(registry, id) == registry[CHOOSE i \in 1 .. Len(registry) : registry[i].id = id]

AlreadyRegistered == "is already registered."

NotFound == "Unknown plugin"

\* The end of a call: the registry it leaves, the message of the Error it threw
\* ("" when it returned) and the boolean it returned (FALSE for a void return).
Returned(registry, value) == [registry |-> registry, threw |-> "", value |-> value]

Threw(registry, message) == [registry |-> registry, threw |-> message, value |-> FALSE]

NoOutcome == [op |-> "none", id |-> "", arg |-> <<>>, threw |-> "", value |-> FALSE]

enabledByDefaultFalse(plugin) ==
  IF "isEnabledByDefault" \in DOMAIN plugin THEN plugin.isEnabledByDefault ELSE FALSE

\* plugin.isEnabledByDefault ?? true
enabledByDefault(plugin) ==
  IF "isEnabledByDefault" \in DOMAIN plugin THEN plugin.isEnabledByDefault ELSE TRUE

registerCallReplacing(registry, plugin) ==
  IF has(registry, plugin.id)
  THEN Returned([i \in 1 .. Len(registry) |->
                   IF registry[i].id = plugin.id
                   THEN [id |-> plugin.id, plugin |-> plugin,
                         enabled |-> enabledByDefault(plugin)]
                   ELSE registry[i]],
                FALSE)
  ELSE Returned(Append(registry, [id |-> plugin.id, plugin |-> plugin,
                                  enabled |-> enabledByDefault(plugin)]),
                FALSE)

registerCall(registry, plugin) ==
  IF has(registry, plugin.id) THEN Threw(registry, AlreadyRegistered)
  ELSE Returned(Append(registry, [id |-> plugin.id, plugin |-> plugin,
                                  enabled |-> enabledByDefault(plugin)]),
                FALSE)

register(registry, id, isEnabledByDefault) ==
  registerCall(registry, Plugin(id, isEnabledByDefault)).registry

RECURSIVE registerAll(_, _)
registerAll(registry, defs) ==
  IF defs = <<>> THEN registry
  ELSE registerAll(register(registry, Head(defs), TRUE), Tail(defs))

isEnabled(registry, id) ==
  IF has(registry, id) THEN Returned(registry, get(registry, id).enabled)
  ELSE Returned(registry, FALSE)

setEnabledCreating(registry, id, enabled) ==
  IF ~has(registry, id)
  THEN Returned(Append(registry, [id |-> id, plugin |-> PluginNoFlag(id),
                                  enabled |-> enabled]), FALSE)
  ELSE Returned([i \in 1 .. Len(registry) |->
                   IF registry[i].id = id THEN [registry[i] EXCEPT !.enabled = enabled]
                   ELSE registry[i]],
                FALSE)

setEnabledCall(registry, id, enabled) ==
  IF ~has(registry, id) THEN Threw(registry, NotFound)
  ELSE Returned([i \in 1 .. Len(registry) |->
                   IF registry[i].id = id THEN [registry[i] EXCEPT !.enabled = enabled]
                   ELSE registry[i]],
                FALSE)

toggleReturningOld(registry, id) ==
  IF ~has(registry, id) THEN Threw(registry, NotFound)
  ELSE Returned([i \in 1 .. Len(registry) |->
                   IF registry[i].id = id THEN [registry[i] EXCEPT !.enabled = ~@]
                   ELSE registry[i]],
                get(registry, id).enabled)

toggle(registry, id) ==
  IF ~has(registry, id) THEN Threw(registry, NotFound)
  ELSE Returned([i \in 1 .. Len(registry) |->
                   IF registry[i].id = id THEN [registry[i] EXCEPT !.enabled = ~@]
                   ELSE registry[i]],
                ~get(registry, id).enabled)

getEnabledPluginsDisabled(registry) ==
  LET idx == SelectSeq([i \in 1 .. Len(registry) |-> i], LAMBDA i : ~registry[i].enabled)
  IN [k \in 1 .. Len(idx) |-> registry[idx[k]].id]

getEnabledPluginsUnfiltered(registry) == [k \in 1 .. Len(registry) |-> registry[k].id]

getEnabledPlugins(registry) ==
  LET idx == SelectSeq([i \in 1 .. Len(registry) |-> i], LAMBDA i : registry[i].enabled)
  IN [k \in 1 .. Len(idx) |-> registry[idx[k]].id]

setEnabled(id, enabled) ==
  /\ genState \in {"idle", "done"}
  /\ \E i \in 1 .. Len(plugins) :
       /\ plugins[i].id = id
       /\ plugins[i].enabled # enabled
       /\ plugins' = [plugins EXCEPT ![i].enabled = enabled]
  /\ UNCHANGED <<uiVars, outcome, genState, opts, extSignal, listening, ctrlAborted,
                 enabledPlugins, tasks, pending, raceWinner, aggregator, errors,
                 snapshots, abortListeners, searchCalls, settleOrder, foldOrder,
                 inFlightAtAbort, searchNo, succeeded>>
  /\ UNCHANGED cacheVars

\* A client of the PluginManager makes one call and notes how it ended.
ManagerCall(op, id, arg, end) ==
  /\ plugins' = end.registry
  /\ outcome' = [op |-> op, id |-> id, arg |-> arg, threw |-> end.threw,
                 value |-> end.value]
  /\ UNCHANGED <<uiVars, genState, opts, extSignal, listening, ctrlAborted, enabledPlugins,
                 tasks, pending, raceWinner, aggregator, errors, snapshots,
                 abortListeners, searchCalls, settleOrder, foldOrder, inFlightAtAbort,
                 searchNo, succeeded>>
  /\ UNCHANGED cacheVars

\* ------------------------------------------------------------------ Backend
Task(status, results, error) == [status |-> status, results |-> results, error |-> error]

Settled(t) == t.status \in {"fulfilled", "rejected"}

\* signal?.addEventListener("abort", handleExternalAbort): the listener of a signal
\* that has already fired is never called, so the new controller stays unaborted.
ControllerAbortedAtStart(signal) == FALSE

\* Promise.race(pending) when some tasks have already settled: the reactions run in
\* the Set's iteration order, so the first settled task in that order wins.
RaceAmongSettledNone(ts, pend, order) == 0

RaceAmongSettled(ts, pend, order) ==
  LET ready == {i \in pend : Settled(ts[i])}
  IN IF ready = {} THEN 0 ELSE Min(ready)

\* options.sortOrder left out
NoSortOrder == "undefined"

\* const { signal, limit, sortOrder = "relevance" } = options
sortOrderDefault(sortOrder) == IF sortOrder = NoSortOrder THEN "relevance" ELSE sortOrder

\* searchStream up to its first await: the body runs on the consumer's first next()
StartSearch(query, limit, sortOrder, signal) ==
  LET enabled == getEnabledPlugins(plugins)
      n == Len(enabled)
      aborted == ControllerAbortedAtStart(signal)
      reason == IF aborted THEN AbortReason ELSE ""
      \* fetchPluginResults: `if (signal.aborted) throw signal.reason`, else cache.get
      started == [i \in 1 .. n |->
                    IF aborted THEN Task("rejected", <<>>, reason)
                    ELSE Task("cacheGet", <<>>, "")]
      getters == IF aborted THEN <<>> ELSE [i \in 1 .. n |-> i]
  IN /\ genState \in {"idle", "done"}
     /\ opts' = [query |-> query, limit |-> limit,
                 sortOrder |-> sortOrderDefault(sortOrder)]
     /\ enabledPlugins' = enabled
     /\ snapshots' = <<>>
     /\ aggregator' = <<>>
     /\ errors' = <<>>
     /\ settleOrder' = IF aborted THEN [i \in 1 .. n |-> i] ELSE <<>>
     /\ foldOrder' = <<>>
     /\ inFlightAtAbort' = {}
     /\ abortListeners' = <<>>
     /\ searchNo' = searchNo + 1
     /\ extSignal' = signal
     /\ ctrlAborted' = aborted
     /\ tasks' = started
     /\ IF n = 0
        THEN /\ genState' = "done"
             /\ listening' = FALSE
             /\ pending' = {}
             /\ raceWinner' = 0
        ELSE /\ genState' = "racing"
             /\ listening' = TRUE
             /\ pending' = 1 .. n
             /\ raceWinner' = RaceAmongSettled(started, 1 .. n, settleOrder')
     /\ calls' = [c \in CallerIds |->
                    IF c <= n /\ ~aborted
                    THEN BeginCall(calls, c, "get",
                                   getCacheKey(enabled[c], query, limit), <<>>)[c]
                    ELSE NoCall]
     /\ loadWaiters' = loadWaiters \o getters
     /\ loadStage' = IF n > 0 /\ ~aborted /\ StartsLoad THEN "exists" ELSE loadStage
     /\ UNCHANGED <<uiVars, outcome, plugins, searchCalls, succeeded>>
     /\ UNCHANGED <<entries, isLoaded, loadTask, writeChain, writeTasks, disk, ttlMs,
                    now, nCalls, faults>>

\* A fetch task settles: when the loop is waiting in Promise.race and nothing has
\* settled it yet, this task does.
SettleTask(i, task) ==
  /\ tasks' = [tasks EXCEPT ![i] = task]
  /\ settleOrder' = Append(settleOrder, i)
  /\ raceWinner' = IF genState = "racing" /\ raceWinner = 0 THEN i ELSE raceWinner

\* fetchPluginResults after `await this.getCachedPluginResults(...)`
FetchAfterGet(i) ==
  LET id == enabledPlugins[i]
      key == getCacheKey(id, opts.query, opts.limit)
  IN /\ i \in DOMAIN tasks
     /\ tasks[i].status = "cacheGet"
     /\ CallSettled(i)
     /\ IF ~CallThrew(i) /\ calls[i].hit
        THEN \* if (cached) return cached
             /\ SettleTask(i, Task("fulfilled", calls[i].value, ""))
             /\ calls' = [calls EXCEPT ![i] = NoCall]
             /\ UNCHANGED <<searchCalls, abortListeners, loadWaiters, loadStage>>
        ELSE \* plugin.search({ query, signal, limit })
             /\ searchCalls' = [searchCalls EXCEPT ![id] = @ + 1]
             /\ IF ctrlAborted /\ RejectsOnAbort(id)
                THEN /\ SettleTask(i, Task("rejected", <<>>, AbortReason))
                     /\ calls' = [calls EXCEPT ![i] = NoCall]
                     /\ UNCHANGED <<abortListeners, loadWaiters, loadStage>>
                ELSE IF ctrlAborted
                THEN \* the provider answers [] at once; the answer is stored
                     /\ tasks' = [tasks EXCEPT ![i] = Task("cacheSet", <<>>, "")]
                     /\ calls' = BeginCall(calls, i, "set", key, <<>>)
                     /\ loadWaiters' = Append(loadWaiters, i)
                     /\ UNCHANGED <<abortListeners, loadStage, settleOrder, raceWinner>>
                ELSE /\ tasks' = [tasks EXCEPT ![i] = Task("searching", <<>>, "")]
                     /\ calls' = [calls EXCEPT ![i] = NoCall]
                     /\ abortListeners' = IF RejectsOnAbort(id)
                                          THEN Append(abortListeners, i)
                                          ELSE abortListeners
                     /\ UNCHANGED <<loadWaiters, loadStage, settleOrder, raceWinner>>
     /\ UNCHANGED <<uiVars, outcome, plugins, genState, opts, extSignal, listening, ctrlAborted,
                    enabledPlugins, pending, aggregator, errors, snapshots, foldOrder,
                    inFlightAtAbort, searchNo, succeeded>>
     /\ UNCHANGED <<entries, isLoaded, loadTask, writeChain, writeTasks, disk, ttlMs,
                    now, nCalls, faults>>

\* the provider's promise resolves; storePluginResultsInCache begins
ProviderResolve(i) ==
  LET id == enabledPlugins[i]
      raw == Take(ProviderData(id), opts.limit)
      results == raw  \* Array.isArray(rawResults) ? rawResults : []
  IN /\ i \in DOMAIN tasks
     /\ tasks[i].status = "searching"
     /\ tasks' = [tasks EXCEPT ![i] = Task("cacheSet", results, "")]
     /\ calls' = BeginCall(calls, i, "set", getCacheKey(id, opts.query, opts.limit),
                           results)
     /\ loadWaiters' = Append(loadWaiters, i)
     /\ abortListeners' = SelectSeq(abortListeners, LAMBDA j : j # i)
     /\ UNCHANGED <<uiVars, outcome, plugins, genState, opts, extSignal, listening, ctrlAborted,
                    enabledPlugins, pending, raceWinner, aggregator, errors, snapshots,
                    searchCalls, settleOrder, foldOrder, inFlightAtAbort, searchNo,
                    succeeded>>
     /\ UNCHANGED <<entries, isLoaded, loadStage, loadTask, writeChain, writeTasks,
                    disk, ttlMs, now, nCalls, faults>>

ProviderRejectStoring(i) ==
  LET id == enabledPlugins[i]
  IN /\ i \in DOMAIN tasks
     /\ tasks[i].status = "searching"
     /\ tasks' = [tasks EXCEPT ![i] = Task("cacheSet", <<>>, "")]
     /\ calls' = BeginCall(calls, i, "set", getCacheKey(id, opts.query, opts.limit), <<>>)
     /\ loadWaiters' = Append(loadWaiters, i)
     /\ abortListeners' = SelectSeq(abortListeners, LAMBDA j : j # i)
     /\ UNCHANGED <<uiVars, outcome, plugins, genState, opts, extSignal, listening, ctrlAborted,
                    enabledPlugins, pending, raceWinner, aggregator, errors, snapshots,
                    searchCalls, settleOrder, foldOrder, inFlightAtAbort, searchNo,
                    succeeded>>
     /\ UNCHANGED <<entries, isLoaded, loadStage, loadTask, writeChain, writeTasks,
                    disk, ttlMs, now, nCalls, faults>>

\* the provider's promise rejects with an error of its own
ProviderReject(i) ==
  /\ i \in DOMAIN tasks
  /\ tasks[i].status = "searching"
  /\ SettleTask(i, Task("rejected", <<>>, ProviderFailure))
  /\ abortListeners' = SelectSeq(abortListeners, LAMBDA j : j # i)
  /\ UNCHANGED <<uiVars, outcome, plugins, genState, opts, extSignal, listening, ctrlAborted,
                 enabledPlugins, pending, aggregator, errors, snapshots, searchCalls,
                 foldOrder, inFlightAtAbort, searchNo, succeeded>>
  /\ UNCHANGED cacheVars

storePluginResultsInCacheRethrowing(threw) == IF threw THEN "thrown" ELSE "stored"

\* storePluginResultsInCache: how it completes when the set() it awaits threw or not
storePluginResultsInCache(threw) == IF threw THEN "warned" ELSE "stored"

\* fetchPluginResults after `await this.storePluginResultsInCache(...)`, which
\* catches a failed write
FetchAfterSet(i) ==
  /\ i \in DOMAIN tasks
  /\ tasks[i].status = "cacheSet"
  /\ CallSettled(i)
  /\ SettleTask(i, IF storePluginResultsInCache(CallThrew(i)) = "thrown"
                   THEN Task("rejected", <<>>, ProviderFailure)
                   ELSE Task("fulfilled", tasks[i].results, ""))
  /\ calls' = [calls EXCEPT ![i] = NoCall]
  /\ UNCHANGED <<uiVars, outcome, plugins, genState, opts, extSignal, listening, ctrlAborted,
                 enabledPlugins, pending, aggregator, errors, snapshots,
                 abortListeners, searchCalls, foldOrder, inFlightAtAbort, searchNo,
                 succeeded>>
  /\ UNCHANGED <<entries, isLoaded, loadStage, loadTask, writeChain, writeTasks, disk,
                 ttlMs, loadWaiters, now, nCalls, faults>>

\* The caller's signal fires: handleExternalAbort aborts the controller, and every
\* provider call listening on its signal rejects with the reason, in listener order.
Abort ==
  LET hit == Range(abortListeners)
  IN /\ listening
     /\ extSignal = "fresh"
     /\ extSignal' = "fired"
     /\ ctrlAborted' = TRUE
     /\ inFlightAtAbort' = {i \in DOMAIN tasks : ~Settled(tasks[i])}
     /\ tasks' = [i \in DOMAIN tasks |->
                    IF i \in hit THEN Task("rejected", <<>>, AbortReason) ELSE tasks[i]]
     /\ settleOrder' = settleOrder \o abortListeners
     /\ raceWinner' = IF genState = "racing" /\ raceWinner = 0 /\ abortListeners # <<>>
                      THEN Head(abortListeners) ELSE raceWinner
     /\ abortListeners' = <<>>
     /\ UNCHANGED <<uiVars, outcome, plugins, genState, opts, listening, enabledPlugins, pending,
                    aggregator, errors, snapshots, searchCalls, foldOrder, searchNo,
                    succeeded>>
     /\ UNCHANGED cacheVars

foldErrorDropped(errs, id, error) == errs

foldErrorReplacing(errs, id, error) ==
  <<[pluginId |-> id, pluginDisplayName |-> DisplayName(id), error |-> error]>>

foldError(errs, id, error) ==
  Append(errs, [pluginId |-> id, pluginDisplayName |-> DisplayName(id), error |-> error])

yieldOnChange(yielded, snapshot) ==
  IF yielded # <<>> /\ yielded[Len(yielded)] = snapshot THEN yielded
  ELSE Append(yielded, snapshot)

\* yield { results: sorted, errors: [...errors] }
yield(yielded, snapshot) == Append(yielded, snapshot)

\* The loop body after `await Promise.race(pending)`, up to the yield.
Resume ==
  LET w == raceWinner
      id == enabledPlugins[w]
      folded == IF tasks[w].status = "fulfilled"
                THEN addResults(aggregator, id, DisplayName(id), tasks[w].results)
                ELSE aggregator
      errs == IF tasks[w].status = "fulfilled" THEN errors
              ELSE foldError(errors, id, tasks[w].error)
      sorted == sortResults(getResults(folded, now), opts.sortOrder)
  IN /\ genState = "racing"
     /\ raceWinner # 0
     /\ pending' = pending \ {w}
     /\ aggregator' = refreshCombined(folded)
     /\ errors' = errs
     /\ snapshots' = yield(snapshots, [results |-> sorted, errors |-> errs])
     /\ foldOrder' = Append(foldOrder, w)
     /\ genState' = "yielded"
     /\ raceWinner' = 0
     /\ UNCHANGED <<uiVars, outcome, plugins, opts, extSignal, listening, ctrlAborted, enabledPlugins,
                    tasks, abortListeners, searchCalls, settleOrder, inFlightAtAbort,
                    searchNo, succeeded>>
     /\ UNCHANGED cacheVars

\* The consumer's next() after a yield: the loop ends, or races the pending tasks.
Pull ==
  /\ genState = "yielded"
  /\ IF pending = {}
     THEN /\ genState' = "done"
          /\ listening' = FALSE
          /\ raceWinner' = 0
          /\ succeeded' = succeeded \cup
               {[id |-> enabledPlugins[i], query |-> opts.query, limit |-> opts.limit,
                 sortOrder |-> opts.sortOrder,
                 key |-> getCacheKey(enabledPlugins[i], opts.query, opts.limit)] :
                  i \in {j \in DOMAIN tasks : tasks[j].status = "fulfilled"}}
     ELSE /\ genState' = "racing"
          /\ raceWinner' = RaceAmongSettled(tasks, pending, settleOrder)
          /\ UNCHANGED <<listening, succeeded>>
  /\ UNCHANGED <<uiVars, outcome, plugins, opts, extSignal, ctrlAborted, enabledPlugins, tasks, pending,
                 aggregator, errors, snapshots, abortListeners, searchCalls,
                 settleOrder, foldOrder, inFlightAtAbort, searchNo>>
  /\ UNCHANGED cacheVars

\* Backend.search: `for await` over searchStream, each snapshot overwriting the
\* response that starts out empty.
consumeMerging(response, snapshot) ==
  [results |-> snapshot.results, errors |-> response.errors \o snapshot.errors]

consume(response, snapshot) ==
  [results |-> snapshot.results, errors |-> snapshot.errors]

RECURSIVE searchLoop(_, _)
searchLoop(response, yielded) ==
  IF yielded = <<>> THEN response
  ELSE searchLoop(consume(response, Head(yielded)), Tail(yielded))

search(yielded) == searchLoop([results |-> <<>>, errors |-> <<>>], yielded)

\* ------------------------------------------------------------ specification
InitStorage ==
  /\ entries = EmptyMap
  /\ isLoaded = FALSE
  /\ loadStage = "none"
  /\ loadTask = 0
  /\ writeChain = 0
  /\ writeTasks = <<>>
  /\ calls = [c \in CallerIds |-> NoCall]
  /\ loadWaiters = <<>>
  /\ now = 0
  /\ nCalls = 0
  /\ faults = 0

\* an optional message that is undefined
NoMessage == "undefined"

\* createInitialState(): the fields of AppState that searches read or write
createInitialState ==
  [query |-> "", results |-> <<>>, sortOrder |-> "relevance", isLoading |-> FALSE,
   pluginErrors |-> <<>>, errorMessage |-> NoMessage, feedback |-> NoMessage]

InitSearch ==
  /\ appState = createInitialState
  /\ searches = <<>>
  /\ abortControllerRef = 0
  /\ outcome = NoOutcome
  /\ genState = "idle"
  /\ opts = [query |-> "q", limit |-> Undefined, sortOrder |-> "relevance"]
  /\ extSignal = "fresh"
  /\ listening = FALSE
  /\ ctrlAborted = FALSE
  /\ enabledPlugins = <<>>
  /\ tasks = <<>>
  /\ pending = {}
  /\ raceWinner = 0
  /\ aggregator = <<>>
  /\ errors = <<>>
  /\ snapshots = <<>>
  /\ abortListeners = <<>>
  /\ searchCalls = [id \in PluginIds |-> 0]
  /\ settleOrder = <<>>
  /\ foldOrder = <<>>
  /\ inFlightAtAbort = {}
  /\ searchNo = 0
  /\ succeeded = {}

InitBackend ==
  /\ plugins = registerAll(<<>>, PluginDefs)
  /\ InitSearch

Init ==
  /\ InitStorage
  /\ InitBackend
  /\ disk = AbsentFile
  /\ ttlMs = 0

Next ==
  \/ LoadExists /\ UNCHANGED searchVars
  \/ LoadExistsThrows /\ UNCHANGED searchVars
  \/ \E c \in CallerIds : ResumeCall(c) /\ UNCHANGED searchVars
  \/ \E i \in 1 .. MaxPersist : i <= Len(writeTasks) /\ WriteStart(i) /\ UNCHANGED searchVars
  \/ \E i \in 1 .. MaxPersist : i <= Len(writeTasks) /\ WriteOk(i) /\ UNCHANGED searchVars
  \/ \E i \in 1 .. MaxPersist : i <= Len(writeTasks) /\ WriteFail(i) /\ UNCHANGED searchVars
  \/ \E i \in 1 .. MaxPersist : i <= Len(writeTasks) /\ WriteSkip(i) /\ UNCHANGED searchVars
  \/ \E o \in SortOrders, sig \in {"fresh", "aborted"} :
       searchNo < 1 /\ StartSearch("q", Undefined, o, sig)
  \/ \E i \in CallerIds : FetchAfterGet(i)
  \/ \E i \in CallerIds : ProviderResolve(i)
  \/ \E i \in CallerIds : ProviderReject(i)
  \/ \E i \in CallerIds : FetchAfterSet(i)
  \/ Abort
  \/ Resume
  \/ Pull
  \/ \E id \in PluginIds, b \in BOOLEAN : searchNo = 0 /\ setEnabled(id, b)

Spec == Init /\ [][Next]_vars

\* The program's own steps: continuations the event loop runs, file operations and
\* provider calls completing, the consumer pulling the next snapshot.
Progress ==
  \/ (LoadExists \/ LoadExistsThrows) /\ UNCHANGED searchVars
  \/ \E c \in CallerIds : ResumeCall(c) /\ UNCHANGED searchVars
  \/ \E i \in 1 .. MaxPersist :
       /\ i <= Len(writeTasks)
       /\ WriteStart(i) \/ WriteOk(i) \/ WriteFail(i) \/ WriteSkip(i)
       /\ UNCHANGED searchVars
  \/ \E i \in CallerIds :
       FetchAfterGet(i) \/ ProviderResolve(i) \/ ProviderReject(i) \/ FetchAfterSet(i)
  \/ Pull

\* The loop's continuation after `await Promise.race(pending)`: the step Resume takes.
ResumeStep == genState = "racing" /\ raceWinner # 0 /\ genState' = "yielded"

\* One search over two enabled providers, in which every step that can be taken
\* eventually is.
InitLive ==
  /\ InitStorage
  /\ plugins = register(register(register(<<>>, "beta", TRUE), "gamma", FALSE),
                        "alpha", TRUE)
  /\ InitSearch
  /\ disk = AbsentFile
  /\ ttlMs = 0

NextLive ==
  \/ Progress
  \/ Resume
  \/ \E sig \in {"fresh", "aborted"} :
       searchNo < 1 /\ StartSearch("q", Undefined, "relevance", sig)
  \/ Abort

Fairness == WF_vars(Progress) /\ WF_genState(ResumeStep)

SpecLive == InitLive /\ [][NextLive]_vars /\ Fairness

\* The storage alone, called directly by concurrent callers.
DirectCallers == 1 .. 2

Keys == {"k1", "k2"}

Values == {<<>>, <<RawResult("u1", "Shared Alpha", 5, 50)>>}

StoredFile ==
  [exists |-> TRUE, parses |-> TRUE, version |-> CACHE_FILE_VERSION,
   entries |-> [k \in {"k1"} |-> CacheEntry(<<>>, 0, Undefined)], writer |-> 0]

\* a file written under another format version
OtherVersionFile == [StoredFile EXCEPT !.version = CACHE_FILE_VERSION + 1]

InitCache ==
  /\ InitStorage
  /\ InitBackend
  /\ disk \in {AbsentFile, StoredFile, OtherVersionFile}
  /\ ttlMs = 0

NextCache ==
  \/ \E c \in DirectCallers, k \in Keys : ClientCall(c, "get", k, <<>>) /\ UNCHANGED searchVars
  \/ \E c \in DirectCallers, k \in Keys, v \in Values :
       ClientCall(c, "set", k, v) /\ UNCHANGED searchVars
  \/ \E c \in DirectCallers : ClientReturn(c) /\ UNCHANGED searchVars
  \/ LoadExists /\ UNCHANGED searchVars
  \/ LoadExistsThrows /\ UNCHANGED searchVars
  \/ LoadRead /\ UNCHANGED searchVars
  \/ \E c \in CallerIds : ResumeCall(c) /\ UNCHANGED searchVars
  \/ \E c \in CallerIds : AwaitWrite(c) /\ UNCHANGED searchVars
  \/ \E i \in 1 .. MaxPersist : i <= Len(writeTasks) /\ WriteStart(i) /\ UNCHANGED searchVars
  \/ \E i \in 1 .. MaxPersist : i <= Len(writeTasks) /\ WriteOk(i) /\ UNCHANGED searchVars
  \/ \E i \in 1 .. MaxPersist : i <= Len(writeTasks) /\ WriteFail(i) /\ UNCHANGED searchVars
  \/ \E i \in 1 .. MaxPersist : i <= Len(writeTasks) /\ WriteSkip(i) /\ UNCHANGED searchVars

SpecCache == InitCache /\ [][NextCache]_vars

\* Two searches in a row over one storage whose entries live for one unit of time,
\* the third provider registered disabled.
RegistryRepeat ==
  register(register(register(<<>>, "beta", TRUE), "gamma", FALSE), "alpha", TRUE)

StoredRepeat ==
  [exists |-> TRUE, parses |-> TRUE, version |-> CACHE_FILE_VERSION,
   entries |-> [k \in {getCacheKey("alpha", "q", Undefined)} |->
                  CacheEntry(<<RawResult("u2", "Alpha Only", 1, Undefined)>>, 0, 1)],
   writer |-> 0]

InitRepeat ==
  /\ InitStorage
  /\ plugins = RegistryRepeat
  /\ InitSearch
  /\ disk = StoredRepeat
  /\ ttlMs = 1

NextRepeat ==
  \/ Tick /\ UNCHANGED searchVars
  \/ LoadExists /\ UNCHANGED searchVars
  \/ LoadRead /\ UNCHANGED searchVars
  \/ LoadPersisted /\ UNCHANGED searchVars
  \/ \E c \in CallerIds : ResumeCall(c) /\ UNCHANGED searchVars
  \/ \E i \in 1 .. MaxPersist : i <= Len(writeTasks) /\ WriteStart(i) /\ UNCHANGED searchVars
  \/ \E i \in 1 .. MaxPersist : i <= Len(writeTasks) /\ WriteOk(i) /\ UNCHANGED searchVars
  \/ \E q \in Queries, l \in Limits, o \in SortOrders :
       searchNo < MaxSearches /\ StartSearch(q, l, o, "fresh")
  \/ \E i \in CallerIds : FetchAfterGet(i)
  \/ \E i \in CallerIds : ProviderResolve(i)
  \/ \E i \in CallerIds : ProviderReject(i)
  \/ \E i \in CallerIds : FetchAfterSet(i)
  \/ Resume
  \/ Pull

SpecRepeat == InitRepeat /\ [][NextRepeat]_vars

\* ------------------------------------------------------------------ claims
Count(x, s) == Cardinality({i \in DOMAIN s : s[i] = x})

IsPrefix(s, t) == Len(s) <= Len(t) /\ SubSeq(t, 1, Len(s)) = s

Urls(snapshot) == {snapshot.results[i].url : i \in DOMAIN snapshot.results}

ErrorIds(snapshot) == [i \in DOMAIN snapshot.errors |-> snapshot.errors[i].pluginId]

\* the tasks the loop has processed when it yields its k-th snapshot
FoldedAt(k) == {foldOrder[j] : j \in 1 .. k}

Final == snapshots[Len(snapshots)]

Streaming == genState \in {"racing", "yielded", "done"}

\* the raw results with this url among those of the fulfilled tasks folded so far
RawFor(url, k, id) ==
  LET mine == {i \in FoldedAt(k) : enabledPlugins[i] = id /\ tasks[i].status = "fulfilled"}
  IN IF mine = {} THEN <<>>
     ELSE SelectSeq(tasks[CHOOSE i \in mine : TRUE].results, LAMBDA r : r.url = url)

RECURSIVE SuppliedScores(_)
SuppliedScores(raws) ==
  IF raws = <<>> THEN <<>>
  ELSE (IF Head(raws).score # Undefined THEN <<Head(raws).score>> ELSE <<>>)
       \o SuppliedScores(Tail(raws))

RECURSIVE ConcatAll(_)
ConcatAll(ss) == IF ss = <<>> THEN <<>> ELSE Head(ss) \o ConcatAll(Tail(ss))

AllSupplied(url, k) ==
  ConcatAll([j \in 1 .. Len(PluginDefs) |-> SuppliedScores(RawFor(url, k, PluginDefs[j]))])

\* C1: a drained stream of N >= 1 enabled providers has yielded exactly N snapshots,
\* the k-th reflecting exactly the first k processed completions (their failures in
\* its error list, their results in its result list); with no enabled provider it
\* yields none.
C1_OneSnapshotPerCompletion ==
  Streaming =>
    /\ Len(snapshots) = Len(enabledPlugins) - Cardinality(pending)
    /\ Len(snapshots) = Len(foldOrder)
    /\ genState = "done" => Len(snapshots) = Len(enabledPlugins)
    /\ \A k \in DOMAIN snapshots :
         /\ Cardinality(FoldedAt(k)) = k
         /\ Range(ErrorIds(snapshots[k])) =
              {enabledPlugins[i] : i \in {j \in FoldedAt(k) : tasks[j].status = "rejected"}}
         /\ Urls(snapshots[k]) =
              UNION {{tasks[i].results[n].url : n \in DOMAIN tasks[i].results} :
                       i \in {j \in FoldedAt(k) : tasks[j].status = "fulfilled"}}

C1_Witness ==
  /\ genState = "done"
  /\ Len(snapshots) = 3
  /\ Len(Final.errors) = 1
  /\ Cardinality(Urls(Final)) >= 2

\* C2: when the stream is drained, the final snapshot's error list has one entry per
\* enabled provider whose fetch did not succeed, and no provider twice.
C2_ErrorsMatchFailures ==
  (genState = "done" /\ snapshots # <<>>) =>
    /\ Len(Final.errors) =
         Cardinality({i \in DOMAIN tasks : tasks[i].status # "fulfilled"})
    /\ \A id \in PluginIds : Count(id, ErrorIds(Final)) <= 1

C2_Witness ==
  /\ genState = "done"
  /\ Len(snapshots) = 3
  /\ Len(Final.errors) = 2

\* C3: once a provider's failure has been processed, every snapshot from that one on
\* holds exactly one error record for it, and the other providers' fetches still
\* complete and are folded: a drained stream holds every result of every provider
\* that succeeded.
C3_FailureIsolated ==
  /\ \A k \in DOMAIN snapshots : \A i \in FoldedAt(k) :
       tasks[i].status = "rejected" =>
         Count(enabledPlugins[i], ErrorIds(snapshots[k])) = 1
  /\ (genState = "done" /\ snapshots # <<>>) =>
       \A i \in DOMAIN tasks :
         /\ Settled(tasks[i])
         /\ tasks[i].status = "fulfilled" =>
              \A n \in DOMAIN tasks[i].results :
                \E r \in Range(Final.results) :
                  /\ r.url = tasks[i].results[n].url
                  /\ enabledPlugins[i] \in Range(r.pluginIds)

C3_Witness ==
  /\ genState = "done"
  /\ Len(snapshots) = 3
  /\ tasks[foldOrder[1]].status = "rejected"
  /\ tasks[foldOrder[2]].status = "fulfilled"
  /\ tasks[foldOrder[3]].status = "fulfilled"
  /\ Cardinality(Urls(Final)) = 3

\* C4 as stated: for a url returned by two different providers, the aggregated result
\* lists both ids exactly once each and its score is the sum of the supplied scores,
\* 0 if none was supplied.
C4_Original ==
  \A k \in DOMAIN snapshots : \A r \in Range(snapshots[k].results) :
    \A a, b \in PluginIds :
      (a # b /\ RawFor(r.url, k, a) # <<>> /\ RawFor(r.url, k, b) # <<>>) =>
        /\ Count(a, r.pluginIds) = 1
        /\ Count(b, r.pluginIds) = 1
        /\ r.score = SumSeq(AllSupplied(r.url, k))

\* C4 (amended): every aggregated result lists each provider id once per raw result
\* that provider returned for the url (once when it returned the url once), and its
\* score is the sum of the scores supplied for the url; when no contributor supplied
\* a score the result has no score.
C4_MergedIdsAndScore ==
  \A k \in DOMAIN snapshots : \A r \in Range(snapshots[k].results) :
    /\ \A id \in PluginIds : Count(id, r.pluginIds) = Len(RawFor(r.url, k, id))
    /\ r.score = IF AllSupplied(r.url, k) = <<>> THEN Undefined
                 ELSE SumSeq(AllSupplied(r.url, k))

C4_Witness ==
  /\ genState = "done"
  /\ snapshots # <<>>
  /\ \E r \in Range(Final.results) :
       /\ r.url = "u1"
       /\ Count("alpha", r.pluginIds) = 1
       /\ Count("beta", r.pluginIds) = 1
       /\ r.score = 8
  /\ \E r \in Range(Final.results) :
       /\ Cardinality(Range(r.pluginIds)) = 2
       /\ r.score = Undefined

\* a completed earlier search in which this task's provider succeeded for the same
\* query and limit, and the entry written for it, still present and unexpired
PriorEntry(i) ==
  {s.key : s \in {t \in succeeded :
                    /\ t.id = enabledPlugins[i]
                    /\ t.query = opts.query
                    /\ t.limit = opts.limit
                    /\ t.key \in DOMAIN entries
                    /\ entries[t.key].expiresAt > now}}

\* C5: in a later search for the same query and limit, a provider that succeeded in
\* a completed search and whose entry is present and unexpired when the search
\* reads the cache is answered from the cache, and its search operation is not
\* invoked, whatever the sort order of either search.
C5_CacheHitSkipsProvider ==
  [][\A i \in DOMAIN tasks :
       /\ (/\ tasks[i].status = "cacheGet"
           /\ calls[i].stage = "awaitLoad"
           /\ calls'[i].stage # "awaitLoad"
           /\ PriorEntry(i) # {}) =>
             /\ calls'[i].stage = "returned"
             /\ calls'[i].hit
             /\ \A k \in PriorEntry(i) : calls'[i].value = entries[k].value
       /\ (/\ tasks[i].status = "cacheGet"
           /\ calls[i].stage = "returned"
           /\ calls[i].hit
           /\ tasks'[i] # tasks[i]) =>
             /\ tasks'[i] = Task("fulfilled", calls[i].value, "")
             /\ searchCalls' = searchCalls]_vars

C5_Witness ==
  /\ searchNo = 2
  /\ genState = "yielded"
  /\ \E i \in DOMAIN tasks :
       /\ enabledPlugins[i] = "alpha"
       /\ tasks[i] = Task("fulfilled", ProviderData("alpha"), "")
       /\ searchCalls["alpha"] = 1
       /\ \E s \in succeeded : s.id = "alpha" /\ s.sortOrder # opts.sortOrder

\* C6 as stated: at most one write of the backing file is in progress at any time.
C6_SingleWriter ==
  Cardinality({i \in DOMAIN writeTasks : writeTasks[i].state = "writing"}) <= 1

\* C7 as stated: after the caller's signal fired during a search, the final snapshot
\* holds an error with the cancellation reason for every provider whose fetch was
\* in flight at that moment.
C7_InFlightReported ==
  (genState = "done" /\ extSignal = "fired") =>
    \A i \in inFlightAtAbort :
      \E e \in Range(Final.errors) :
        e.pluginId = enabledPlugins[i] /\ e.error = AbortReason

\* C8 as stated: when the caller's signal is already aborted as the search starts,
\* the internal signal is aborted too, no provider's search operation is invoked
\* and every enabled provider is reported with the cancellation reason.
C8_PreAbortedSkipsProviders ==
  (Streaming /\ extSignal = "aborted" /\ enabledPlugins # <<>>) =>
    /\ ctrlAborted
    /\ \A id \in PluginIds : searchCalls[id] = 0
    /\ genState = "done" =>
         \A i \in DOMAIN enabledPlugins :
           \E e \in Range(Final.errors) :
             e.pluginId = enabledPlugins[i] /\ e.error = AbortReason

\* C9: from one snapshot to the next no url is lost, no url loses a contributing
\* provider id, and the error list only grows at its end.
C9_SnapshotsGrow ==
  \A k \in DOMAIN snapshots : k < Len(snapshots) =>
    /\ Urls(snapshots[k]) \subseteq Urls(snapshots[k + 1])
    /\ \A r \in Range(snapshots[k].results) : \A t \in Range(snapshots[k + 1].results) :
         r.url = t.url =>
           \A id \in PluginIds : Count(id, r.pluginIds) <= Count(id, t.pluginIds)
    /\ IsPrefix(snapshots[k].errors, snapshots[k + 1].errors)

C9_Witness ==
  /\ Len(snapshots) = 3
  /\ Cardinality(Urls(snapshots[1])) = 2
  /\ Cardinality(Urls(snapshots[2])) = 3
  /\ Len(snapshots[2].errors) = 0
  /\ Len(snapshots[3].errors) = 1
  /\ \E r \in Range(snapshots[1].results), t \in Range(snapshots[2].results) :
       r.url = t.url /\ Len(r.pluginIds) < Len(t.pluginIds)

\* C10 as stated: the completions are processed in the order the fetch tasks
\* settled.
C10_ArrivalOrder ==
  \A k \in DOMAIN foldOrder : foldOrder[k] = settleOrder[k]

\* C11: once started, a stream whose fetch tasks all settle and whose consumer keeps
\* pulling ends (and with it search()), and it never ends while a completion of that
\* search is still unprocessed.
C11_StreamEnds ==
  /\ [](genState = "done" =>
         /\ pending = {}
         /\ \A i \in DOMAIN tasks : Settled(tasks[i]) /\ Count(i, foldOrder) = 1)
  /\ (genState = "racing") ~> (genState = "done")

C11_Witness ==
  /\ genState = "done"
  /\ Len(foldOrder) = 2
  /\ Range(foldOrder) = {1, 2}
  /\ \E i \in DOMAIN tasks : tasks[i].status = "rejected"

\* C12: what search() returns for a run is the last snapshot its stream yielded, or
\* an empty result list and an empty error list when it yielded none; failed and
\* cancelled providers only show as records of that snapshot's error list.
C12_SearchReturnsLast ==
  genState = "done" =>
    /\ search(snapshots) = IF snapshots = <<>> THEN [results |-> <<>>, errors |-> <<>>]
                           ELSE Final
    /\ \A i \in DOMAIN tasks :
         tasks[i].status = "rejected" =>
           \E e \in Range(search(snapshots).errors) :
             e.pluginId = enabledPlugins[i] /\ e.error = tasks[i].error

C12_Witness ==
  /\ genState = "done"
  /\ Len(snapshots) = 2
  /\ search(snapshots).results = <<>>
  /\ Len(search(snapshots).errors) = 2
  /\ \E e \in Range(search(snapshots).errors) : e.error = AbortReason

\* the provider ids in ascending lexicographic order
LexOrder == <<"alpha", "beta", "gamma">>

LexPos(id) == CHOOSE i \in DOMAIN LexOrder : LexOrder[i] = id

\* C13: in every aggregated result of every snapshot the provider-id list and the
\* display-name list have the same non-zero length, position by position they name
\* the same provider, and the ids never ascend lexicographically along the list.
C13_IdAndNameLists ==
  \A k \in DOMAIN snapshots : \A r \in Range(snapshots[k].results) :
    /\ Len(r.pluginIds) > 0
    /\ Len(r.pluginDisplayNames) = Len(r.pluginIds)
    /\ \A j \in DOMAIN r.pluginIds :
         /\ r.pluginDisplayNames[j] = DisplayName(r.pluginIds[j])
         /\ j > 1 => LexPos(r.pluginIds[j - 1]) >= LexPos(r.pluginIds[j])

C13_Witness ==
  /\ genState = "done"
  /\ foldOrder = <<1, 3, 2>>
  /\ \E r \in Range(Final.results) : r.pluginIds = <<"gamma", "gamma", "beta">>
  /\ \E r \in Range(Final.results) : r.pluginDisplayNames = <<"Beta", "Alpha">>

\* C14: when one provider's result list holds a url several times, the snapshot has
\* one aggregated result for the url, that result lists the provider once per
\* occurrence, and its score is the sum of the scores of all the contributions to
\* the url, every occurrence included.
C14_OwnDuplicatesFolded ==
  \A k \in DOMAIN snapshots : \A id \in PluginIds : \A url \in Urls(snapshots[k]) :
    Len(RawFor(url, k, id)) >= 2 =>
      /\ Cardinality({n \in DOMAIN snapshots[k].results :
                        snapshots[k].results[n].url = url}) = 1
      /\ \A r \in Range(snapshots[k].results) :
           r.url = url =>
             /\ Count(id, r.pluginIds) = Len(RawFor(url, k, id))
             /\ SuppliedScores(RawFor(url, k, id)) # <<>> =>
                  r.score = SumSeq(AllSupplied(url, k))

C14_Witness ==
  /\ genState = "done"
  /\ snapshots # <<>>
  /\ \E r \in Range(Final.results) :
       /\ r.url = "u2"
       /\ r.pluginIds = <<"alpha", "alpha">>
       /\ r.score = 3

\* C15: a set(k, v) that gets past the load puts v in the table under k and leaves
\* every other key alone, nothing but a set changes the value a key has in the table,
\* and a get(k) returns the value the table holds for k (no entry expires here), so
\* get(k) returns the value of the latest set(k, v).
C15_GetReturnsLatestSet ==
  [][/\ \A c \in DirectCallers :
         (calls[c].stage = "awaitLoad" /\ calls'[c].stage \notin {"awaitLoad", "threw"}) =>
           IF calls[c].op = "set"
           THEN /\ calls[c].key \in DOMAIN entries'
                /\ entries'[calls[c].key].value = calls[c].value
                /\ \A k \in DOMAIN entries \ {calls[c].key} :
                     k \in DOMAIN entries' /\ entries'[k] = entries[k]
           ELSE /\ entries' = entries
                /\ calls'[c].stage = "returned"
                /\ calls'[c].hit = (calls[c].key \in DOMAIN entries)
                /\ calls'[c].hit => calls'[c].value = entries[calls[c].key].value
     /\ (isLoaded /\ entries' # entries) =>
           \E c \in DirectCallers :
             /\ calls[c].op = "set"
             /\ calls[c].stage = "awaitLoad"
             /\ calls'[c].stage = "awaitWrite"]_vars

C15_Witness ==
  \E c \in DirectCallers :
    /\ calls[c].op = "get"
    /\ calls[c].stage = "returned"
    /\ calls[c].hit
    /\ calls[c].key = "k2"
    /\ calls[c].value # <<>>
    /\ "k1" \in DOMAIN entries
    /\ Len(writeTasks) >= 3

\* C16: with a TTL T > 0, a get of an entry stored at time t returns its value at any
\* time before t + T; at any time from t + T on it removes the entry from the table
\* and answers undefined.
C16_TtlBoundary ==
  [][\A c \in CallerIds :
       /\ (calls[c].op = "get" /\ calls[c].stage = "awaitWrite") => ~calls[c].hit
       /\ (/\ calls[c].op = "get"
           /\ calls[c].stage = "awaitLoad"
           /\ calls'[c].stage \notin {"awaitLoad", "threw"}
           /\ calls[c].key \in DOMAIN entries) =>
             /\ ttlMs > 0
             /\ IF now < entries[calls[c].key].cachedAt + ttlMs
                THEN /\ calls'[c].stage = "returned"
                     /\ calls'[c].hit
                     /\ calls'[c].value = entries[calls[c].key].value
                     /\ entries' = entries
                ELSE /\ calls[c].key \notin DOMAIN entries'
                     /\ ~calls'[c].hit]_vars

C16_Witness ==
  /\ searchNo = 2
  /\ now = 1
  /\ \E c \in DOMAIN tasks :
       /\ calls[c].op = "get"
       /\ calls[c].stage = "awaitWrite"
       /\ calls[c].key \notin DOMAIN entries
  /\ \E c \in DOMAIN tasks : tasks[c].status = "fulfilled" /\ searchCalls[enabledPlugins[c]] = 1

\* The order in which loadFromDisk passes through its awaits.
LoadSteps ==
  {<<"none", "exists">>, <<"exists", "read">>, <<"exists", "ok">>, <<"exists", "err">>,
   <<"read", "persist">>, <<"read", "ok">>, <<"persist", "ok">>, <<"persist", "err">>}

LoadFinished == loadStage \in {"ok", "err"}

\* C18: the file is read at most once in the life of a storage instance, however many
\* calls arrive while the load is going on, and no get or set reads or changes the
\* table before the load has finished.
C18_LoadedOnce ==
  [][/\ isLoaded => LoadFinished
     /\ loadStage' # loadStage => <<loadStage, loadStage'>> \in LoadSteps
     /\ entries' # entries => (loadStage = "read" \/ LoadFinished)
     /\ \A c \in CallerIds :
          (calls[c].stage = "awaitLoad" /\ calls'[c].stage # "awaitLoad") =>
            /\ LoadFinished
            /\ loadStage' = loadStage]_vars

C18_Witness ==
  /\ loadStage = "ok"
  /\ disk = StoredFile
  /\ nCalls = 2
  /\ "k1" \in DOMAIN entries
  /\ \A c \in DirectCallers :
       /\ calls[c].viaPromise
       /\ calls[c].stage \in {"returned", "awaitWrite"}

\* C19: a cache read that fails during a search makes the provider a cache miss, so
\* it is invoked; a cache write that fails leaves the provider's results delivered as
\* a success; neither failure puts the provider in the error list.
C19_CacheFailuresAreSwallowed ==
  [][\A i \in DOMAIN tasks :
       /\ (/\ i \in DOMAIN tasks'
           /\ tasks[i].status = "cacheGet"
           /\ tasks'[i].status # "cacheGet"
           /\ CallThrew(i)) =>
             /\ searchCalls'[enabledPlugins[i]] = searchCalls[enabledPlugins[i]] + 1
             /\ tasks'[i].status = "rejected" =>
                  (ctrlAborted /\ tasks'[i].error = AbortReason)
             /\ errors' = errors
       /\ (/\ i \in DOMAIN tasks'
           /\ tasks[i].status = "cacheSet"
           /\ tasks'[i].status # "cacheSet") =>
             /\ tasks'[i] = Task("fulfilled", tasks[i].results, "")
             /\ errors' = errors
       /\ (i \in Range(foldOrder') /\ i \notin Range(foldOrder) /\ tasks[i].status = "fulfilled") =>
             errors' = errors]_vars

C19_Witness ==
  /\ genState = "done"
  /\ loadStage = "err"
  /\ errors = <<>>
  /\ Len(enabledPlugins) >= 2
  /\ \A i \in DOMAIN tasks :
       /\ tasks[i].status = "fulfilled"
       /\ searchCalls[enabledPlugins[i]] = 1
  /\ snapshots # <<>>
  /\ Final.results # <<>>

\* C20: a file whose version is not the supported one loads as an empty table: every
\* get answers undefined until something is set, and the load reports no error.
C20_OtherVersionIsEmpty ==
  disk = OtherVersionFile =>
    /\ writeTasks = <<>> => entries = EmptyMap
    /\ faults = 0 => loadStage # "err"
    /\ \A c \in DirectCallers :
         calls[c].op = "get" =>
           /\ faults = 0 => calls[c].stage # "threw"
           /\ (calls[c].stage = "returned" /\ writeTasks = <<>>) => ~calls[c].hit

C20_Witness ==
  /\ disk = OtherVersionFile
  /\ loadStage = "ok"
  /\ faults = 0
  /\ writeTasks = <<>>
  /\ \A k \in Keys :
       \E c \in DirectCallers :
         /\ calls[c].op = "get"
         /\ calls[c].key = k
         /\ calls[c].stage = "returned"
         /\ ~calls[c].hit

\* C17 as stated: once a set(k, v) has resolved, the backing file holds what a new
\* instance needs to return v for k: the content written by that call's write or by
\* a later one.
C17_ResolvedSetIsOnDisk ==
  \A c \in DirectCallers :
    (calls[c].op = "set" /\ calls[c].stage = "returned") =>
      /\ disk.exists
      /\ disk.version = CACHE_FILE_VERSION
      /\ calls[c].key \in DOMAIN disk.entries
      /\ \/ disk.writer >= calls[c].task
         \/ disk.entries = writeTasks[calls[c].task].payload

\* The storage alone with its TTL configured as 0 while time passes; the environment
\* may set a TTL of its own, which the configured one overrides.
InitForever ==
  /\ InitStorage
  /\ InitBackend
  /\ disk \in {AbsentFile, StoredFile}
  /\ \E envTtl \in {Undefined, 1} : ttlMs = resolveTtl(0, envTtl)

NextForever ==
  \/ Tick /\ UNCHANGED searchVars
  \/ \E k \in Keys : ClientCall(1, "get", k, <<>>) /\ UNCHANGED searchVars
  \/ \E k \in Keys, v \in Values : ClientCall(1, "set", k, v) /\ UNCHANGED searchVars
  \/ ClientReturn(1) /\ UNCHANGED searchVars
  \/ LoadExists /\ UNCHANGED searchVars
  \/ LoadRead /\ UNCHANGED searchVars
  \/ ResumeCall(1) /\ UNCHANGED searchVars
  \/ AwaitWrite(1) /\ UNCHANGED searchVars
  \/ \E i \in 1 .. MaxPersist : i <= Len(writeTasks) /\ WriteStart(i) /\ UNCHANGED searchVars
  \/ \E i \in 1 .. MaxPersist : i <= Len(writeTasks) /\ WriteOk(i) /\ UNCHANGED searchVars

SpecForever == InitForever /\ [][NextForever]_vars

\* C21: with the TTL configured as 0 an entry stored by set is never reported
\* expired: whatever time has passed, a get of its key returns its value and the
\* entry stays in the table.
C21_ZeroTtlNeverExpires ==
  [][/\ ttlMs = 0
     /\ LoadFinished => DOMAIN entries \subseteq DOMAIN entries'
     /\ \A k \in DOMAIN entries : entries[k].expiresAt = Undefined
     /\ \A c \in DirectCallers :
          (/\ calls[c].op = "get"
           /\ calls[c].stage = "awaitLoad"
           /\ calls'[c].stage # "awaitLoad"
           /\ calls[c].key \in DOMAIN entries) =>
             /\ calls'[c].stage = "returned"
             /\ calls'[c].hit
             /\ calls'[c].value = entries[calls[c].key].value
             /\ entries' = entries]_vars

C21_Witness ==
  /\ now = MaxTime
  /\ calls[1].op = "get"
  /\ calls[1].stage = "returned"
  /\ calls[1].hit
  /\ calls[1].value # <<>>
  /\ calls[1].key \in DOMAIN entries
  /\ entries[calls[1].key].cachedAt = 0
  /\ entries[calls[1].key].value = calls[1].value

\* C22: within one search the search operation of a provider enabled at the start is
\* invoked at most once, also after it failed or was cancelled, and that of a disabled
\* provider is never invoked.
C22_AtMostOneInvocation ==
  searchNo <= 1 =>
    \A id \in PluginIds :
      /\ searchCalls[id] <= 1
      /\ id \notin Range(enabledPlugins) => searchCalls[id] = 0
      /\ (\E i \in 1 .. Len(plugins) : plugins[i].id = id /\ ~plugins[i].enabled) =>
           searchCalls[id] = 0

C22_Witness ==
  /\ genState = "done"
  /\ Len(enabledPlugins) = 2
  /\ \E i \in DOMAIN tasks :
       /\ tasks[i].status = "rejected"
       /\ tasks[i].error = ProviderFailure
       /\ searchCalls[enabledPlugins[i]] = 1
  /\ \E i \in DOMAIN tasks :
       /\ tasks[i].status = "rejected"
       /\ tasks[i].error = AbortReason
       /\ searchCalls[enabledPlugins[i]] = 1
  /\ \E i \in 1 .. Len(plugins) : ~plugins[i].enabled /\ searchCalls[plugins[i].id] = 0

\* One search, for the usual query, for one whose results tie under every policy or
\* for one whose scores do not add up exactly, with or without a sort policy, the providers completing in any order; no file
\* fault, no abort.
NextOrder ==
  \/ LoadExists /\ UNCHANGED searchVars
  \/ \E c \in CallerIds : ResumeCall(c) /\ UNCHANGED searchVars
  \/ \E i \in 1 .. MaxPersist : i <= Len(writeTasks) /\ WriteStart(i) /\ UNCHANGED searchVars
  \/ \E i \in 1 .. MaxPersist : i <= Len(writeTasks) /\ WriteOk(i) /\ UNCHANGED searchVars
  \/ \E q \in {"q", "tie", "sum"}, o \in SortOrders \cup {NoSortOrder} :
       searchNo < 1 /\ StartSearch(q, Undefined, o, "fresh")
  \/ \E i \in CallerIds : FetchAfterGet(i)
  \/ \E i \in CallerIds : ProviderResolve(i)
  \/ \E i \in CallerIds : ProviderReject(i)
  \/ \E i \in CallerIds : FetchAfterSet(i)
  \/ Resume
  \/ Pull

SpecOrder == Init /\ [][NextOrder]_vars

RECURSIVE FoldTasks(_, _)
\* the aggregator after folding the fulfilled tasks among `order`, in that order
FoldTasks(agg, order) ==
  IF order = <<>> THEN agg
  ELSE LET i == Head(order)
           id == enabledPlugins[i]
       IN FoldTasks(IF tasks[i].status = "fulfilled"
                    THEN addResults(agg, id, DisplayName(id), tasks[i].results)
                    ELSE agg,
                    Tail(order))

UrlSeq(results) == [i \in DOMAIN results |-> results[i].url]

\* C23 as stated: with the enabled providers, their outcomes and the policy fixed, the
\* final snapshot lists the urls in the same sequence whatever order the providers
\* completed in, hence in the sequence obtained when they complete in list order.
C23_OrderIndependent ==
  (genState = "done" /\ snapshots # <<>>) =>
    UrlSeq(Final.results) =
      UrlSeq(sortResults(getResults(FoldTasks(<<>>, [i \in DOMAIN tasks |-> i]), now),
                         opts.sortOrder))

\* a may stand directly before b under the documented key of the policy
Respects(a, b, order) ==
  LET count(r) == Len(r.pluginIds)
      score(r) == IF r.score = Undefined THEN 0 ELSE r.score
      stamp(r) == IF r.timestamp = Undefined THEN r.receivedAt ELSE r.timestamp
  IN CASE order = "relevance" ->
            \/ count(a) > count(b)
            \/ count(a) = count(b) /\ score(a) > score(b)
            \/ count(a) = count(b) /\ score(a) = score(b) /\ stamp(a) >= stamp(b)
       [] order = "recency" ->
            \/ stamp(a) > stamp(b)
            \/ stamp(a) = stamp(b) /\ score(a) >= score(b)
       [] order = "source" ->
            \/ count(a) > count(b)
            \/ count(a) = count(b) /\ CompareIdLists(a.pluginIds, b.pluginIds) < 0
            \/ /\ count(a) = count(b)
               /\ CompareIdLists(a.pluginIds, b.pluginIds) = 0
               /\ score(a) >= score(b)

C25_SortIdempotent ==
  /\ \A o \in SortOrders :
       LET once == sortResults(getResults(aggregator, now), o)
       IN sortResults(once, o) = once
  /\ \A k \in DOMAIN snapshots :
       sortResults(snapshots[k].results, opts.sortOrder) = snapshots[k].results

C25_Witness ==
  /\ opts.query = "tie"
  /\ snapshots # <<>>
  /\ LET aggregated == getResults(aggregator, now)
         once == sortResults(aggregated, opts.sortOrder)
     IN /\ Len(aggregated) = 3
        /\ once # aggregated
        /\ \E i \in 1 .. 2 : compare(once[i], once[i + 1], opts.sortOrder) = 0

\* The PluginManager alone: a client registers providers, with or without an
\* enabled-by-default flag, and enables, disables, toggles and queries ids, registered
\* or not.
Providers ==
  {Plugin(id, flag) : id \in PluginIds, flag \in BOOLEAN} \cup {PluginNoFlag(id) : id \in PluginIds}

InitRegistry ==
  /\ InitStorage
  /\ plugins = <<>>
  /\ InitSearch
  /\ disk = AbsentFile
  /\ ttlMs = 0

NextRegistry ==
  \/ \E p \in Providers : ManagerCall("register", p.id, p, registerCall(plugins, p))
  \/ \E id \in PluginIds, b \in BOOLEAN :
       ManagerCall("setEnabled", id, [enabled |-> b], setEnabledCall(plugins, id, b))
  \/ \E id \in PluginIds : ManagerCall("toggle", id, [id |-> id], toggle(plugins, id))
  \/ \E id \in PluginIds :
       ManagerCall("isEnabled", id, [id |-> id], isEnabled(plugins, id))

SpecRegistry == InitRegistry /\ [][NextRegistry]_vars

\* the step is a call of `op` by the client
Called(op) == outcome'.op = op /\ <<plugins, outcome>>' # <<plugins, outcome>>

\* C26: register(p) with an id already registered fails with an AlreadyRegistered
\* error and leaves the registry as it was: the existing registration keeps its
\* provider and its current enabled flag.
C26_DuplicateRegisterFails ==
  [][(Called("register") /\ has(plugins, outcome'.id)) =>
       /\ outcome'.threw = AlreadyRegistered
       /\ plugins' = plugins
       /\ get(plugins', outcome'.id).plugin = get(plugins, outcome'.id).plugin
       /\ get(plugins', outcome'.id).enabled = get(plugins, outcome'.id).enabled]_vars

C26_Witness ==
  /\ outcome.op = "register"
  /\ outcome.threw = AlreadyRegistered
  /\ Len(plugins) = 2
  /\ has(plugins, outcome.id)
  /\ get(plugins, outcome.id).plugin # outcome.arg
  /\ get(plugins, outcome.id).enabled # enabledByDefault(get(plugins, outcome.id).plugin)
  /\ get(plugins, outcome.id).enabled # enabledByDefault(outcome.arg)

\* C27: setEnabled(id, b) and toggle(id) on an id that is not registered fail with a
\* NotFound error and change no registration's enabled flag.
C27_UnknownIdFails ==
  [][((Called("setEnabled") \/ Called("toggle")) /\ ~has(plugins, outcome'.id)) =>
       /\ outcome'.threw = NotFound
       /\ Len(plugins') = Len(plugins)
       /\ \A i \in 1 .. Len(plugins) :
            /\ plugins'[i].id = plugins[i].id
            /\ plugins'[i].enabled = plugins[i].enabled]_vars

C27_Witness ==
  /\ outcome.op = "toggle"
  /\ outcome.threw = NotFound
  /\ ~has(plugins, outcome.id)
  /\ Len(plugins) = 2
  /\ \E i, j \in 1 .. 2 : plugins[i].enabled /\ ~plugins[j].enabled

\* C28 as stated: isEnabled(id) on an id that is not registered fails with a NotFound
\* error.
C28_IsEnabledUnknownFails ==
  [][(Called("isEnabled") /\ ~has(plugins, outcome'.id)) =>
       outcome'.threw = NotFound]_vars

\* C29: toggle(id) on a registered id flips that id's enabled flag, returns the new
\* flag, which is what isEnabled(id) answers afterwards, leaves every other
\* registration as it was, and a second toggle restores the original flag.
C29_ToggleFlips ==
  [][(Called("toggle") /\ has(plugins, outcome'.id)) =>
       LET id == outcome'.id
       IN /\ outcome'.threw = ""
          /\ get(plugins', id).enabled = ~get(plugins, id).enabled
          /\ outcome'.value = get(plugins', id).enabled
          /\ isEnabled(plugins', id) = Returned(plugins', outcome'.value)
          /\ Len(plugins') = Len(plugins)
          /\ \A i \in 1 .. Len(plugins) :
               IF plugins[i].id = id
               THEN plugins'[i] = [plugins[i] EXCEPT !.enabled = ~@]
               ELSE plugins'[i] = plugins[i]
          /\ toggle(plugins', id).registry = plugins
          /\ toggle(plugins', id).value = get(plugins, id).enabled]_vars

C29_Witness ==
  /\ outcome.op = "toggle"
  /\ outcome.threw = ""
  /\ outcome.value
  /\ Len(plugins) = 3
  /\ get(plugins, outcome.id).enabled
  /\ ~enabledByDefault(get(plugins, outcome.id).plugin)
  /\ \E i \in 1 .. 3 : ~plugins[i].enabled

\* C30: after register(p) succeeds for a new id, isEnabled(p.id) is p's
\* enabled-by-default flag, or true when p has none, and no other registration's
\* enabled flag has changed.
C30_RegisterDefault ==
  [][(Called("register") /\ ~has(plugins, outcome'.id)) =>
       LET p == outcome'.arg
           expected == IF "isEnabledByDefault" \in DOMAIN p THEN p.isEnabledByDefault
                       ELSE TRUE
       IN /\ outcome'.threw = ""
          /\ isEnabled(plugins', p.id) = Returned(plugins', expected)
          /\ get(plugins', p.id).plugin = p
          /\ Len(plugins') = Len(plugins) + 1
          /\ \A i \in 1 .. Len(plugins) : plugins'[i] = plugins[i]]_vars

C30_Witness ==
  /\ outcome.op = "register"
  /\ outcome.threw = ""
  /\ outcome.arg = PluginNoFlag(outcome.id)
  /\ Len(plugins) = 2
  /\ plugins[2].plugin = outcome.arg
  /\ plugins[2].enabled
  /\ ~plugins[1].enabled
  /\ enabledByDefault(plugins[1].plugin)

\* the tasks folded into the k-th snapshot whose provider returned this url
Contributors(url, k) ==
  {i \in FoldedAt(k) :
     /\ tasks[i].status = "fulfilled"
     /\ \E j \in DOMAIN tasks[i].results : tasks[i].results[j].url = url}

\* C34 as stated: in every aggregated result each contributing provider's id appears
\* at most once in the provider-id list, so that the list is as long as the number of
\* distinct providers that returned the url.
C34_DistinctProviderIds ==
  \A k \in DOMAIN snapshots :
    \A n \in DOMAIN snapshots[k].results :
      LET r == snapshots[k].results[n]
      IN /\ \A id \in PluginIds : Count(id, r.pluginIds) <= 1
         /\ Len(r.pluginIds) = Cardinality(Contributors(r.url, k))

\* C35: in every snapshot no two aggregated results have the same url, and every url
\* returned by a provider whose completion has been folded is in exactly one of them.
C35_OneResultPerUrl ==
  \A k \in DOMAIN snapshots :
    LET listed == snapshots[k].results
    IN /\ \A m, n \in DOMAIN listed : listed[m].url = listed[n].url => m = n
       /\ \A i \in FoldedAt(k) :
            tasks[i].status = "fulfilled" =>
              \A j \in DOMAIN tasks[i].results :
                Cardinality({n \in DOMAIN listed : listed[n].url = tasks[i].results[j].url}) = 1

C35_Witness ==
  /\ genState = "done"
  /\ Len(snapshots) = 3
  /\ \A i \in DOMAIN tasks : tasks[i].status = "fulfilled" /\ tasks[i].results # <<>>
  /\ Len(Final.results) = 3
  /\ \E n \in DOMAIN Final.results : Cardinality(Contributors(Final.results[n].url, 3)) = 2

\* the merged entry of a result: what the providers contributed to it
Merged(r) ==
  [url |-> r.url, pluginIds |-> r.pluginIds, pluginDisplayNames |-> r.pluginDisplayNames,
   score |-> r.score, title |-> r.title, timestamp |-> r.timestamp]

MergedWithoutScore(r) == [Merged(r) EXCEPT !.score = Undefined]

\* the results of the providers' outcomes folded in list order
InListOrder == getResults(FoldTasks(<<>>, [i \in DOMAIN tasks |-> i]), now)

\* C33 as stated: with the providers' outcomes fixed, each url's merged entry in the
\* final snapshot (id list, name list, summed score, merged field values) is the same
\* whatever order the providers completed in, hence the one obtained when they
\* complete in list order.
C33_MergeOrderIndependent ==
  (genState = "done" /\ snapshots # <<>>) =>
    {Merged(Final.results[n]) : n \in DOMAIN Final.results} =
      {Merged(InListOrder[n]) : n \in DOMAIN InListOrder}

\* ------------------------------------------------- core/sorting.ts
\* the comparator the exported sortResults hands to Array.prototype.sort
sorting_compare(a, b, order) ==
  IF order = "recency"
  THEN IF timestampFallback(b) - timestampFallback(a) # 0
       THEN timestampFallback(b) - timestampFallback(a)
       ELSE scoreFallback(b) - scoreFallback(a)
  ELSE IF order = "source"
  THEN IF Len(b.pluginIds) - Len(a.pluginIds) # 0
       THEN Len(b.pluginIds) - Len(a.pluginIds)
       ELSE IF CompareIdLists(a.pluginIds, b.pluginIds) # 0
       THEN CompareIdLists(a.pluginIds, b.pluginIds)
       ELSE scoreFallback(b) - scoreFallback(a)
  ELSE IF scoreFallback(b) - scoreFallback(a) # 0
       THEN scoreFallback(b) - scoreFallback(a)
       ELSE timestampFallback(b) - timestampFallback(a)

RECURSIVE sorting_StableInsert(_, _, _)
sorting_StableInsert(sorted, x, order) ==
  IF sorted = <<>> THEN <<x>>
  ELSE IF sorting_compare(x, Head(sorted), order) < 0 THEN <<x>> \o sorted
  ELSE <<Head(sorted)>> \o sorting_StableInsert(Tail(sorted), x, order)

RECURSIVE sorting_SortInto(_, _, _)
sorting_SortInto(sorted, rest, order) ==
  IF rest = <<>> THEN sorted
  ELSE sorting_SortInto(sorting_StableInsert(sorted, Head(rest), order), Tail(rest), order)

\* the exported sortResults of core/sorting.ts
sorting_sortResults(results, order) == sorting_SortInto(<<>>, results, order)

\* C40 as stated: for every list of aggregated results (every snapshot's list) and
\* every sort policy, the exported sortResults of core/sorting.ts returns the same
\* order as the Backend's internal sortResults.
C40_SameOrder ==
  \A k \in DOMAIN snapshots :
    \A order \in SortOrders :
      sorting_sortResults(snapshots[k].results, order) = sortResults(snapshots[k].results, order)

\* the part that holds: the two agree under the recency and source policies
C40_SameOrderButRelevance ==
  \A k \in DOMAIN snapshots :
    \A order \in {"recency", "source"} :
      sorting_sortResults(snapshots[k].results, order) = sortResults(snapshots[k].results, order)

\* ------------------------------------------------- the cache keys
\* fetchPluginResults of two providers over the storage, for any query and limit.
\* Provider ids and queries are arbitrary strings: the second provider's id and the
\* second query contain the separator of getCacheKey.
KeyProviders == <<"alpha", "alpha-beta">>

KeyQueries == {"q", "beta-q"}

Triples == [pluginId : Range(KeyProviders), query : KeyQueries, limit : Limits]

KeyOf(t) == getCacheKey(t.pluginId, t.query, t.limit)

\* what plugin.search returns: a list that tells which provider produced it for
\* which query and limit
ProviderAnswer(t) ==
  <<RawResult("u1", t.pluginId \o " on " \o t.query, 1,
              IF t.limit = Undefined THEN Undefined ELSE t.limit)>>

\* the (provider, query, limit) of the call that caller c has in progress
AskedBy(c) ==
  CHOOSE t \in Triples : t.pluginId = KeyProviders[c] /\ KeyOf(t) = calls[c].key

\* fetchPluginResults up to its first await: getCachedPluginResults
LookUp(c, query, limit) ==
  ClientCall(c, "get", getCacheKey(KeyProviders[c], query, limit), <<>>)

\* fetchPluginResults after a miss: plugin.search, then storePluginResultsInCache
StoreAfterMiss(c) ==
  /\ calls[c].op = "get"
  /\ calls[c].stage = "returned"
  /\ ~calls[c].hit
  /\ nCalls < MaxCalls
  /\ nCalls' = nCalls + 1
  /\ calls' = BeginCall(calls, c, "set", calls[c].key, ProviderAnswer(AskedBy(c)))
  /\ loadWaiters' = Append(loadWaiters, c)
  /\ loadStage' = IF StartsLoad THEN "exists" ELSE loadStage
  /\ UNCHANGED <<entries, isLoaded, loadTask, writeChain, writeTasks, disk, ttlMs, now,
                 faults>>

\* fetchPluginResults returns: the cached list, or the stored one
FetchReturn(c) ==
  /\ calls[c].op = "get" => calls[c].hit
  /\ ClientReturn(c)

NextKeys ==
  \/ \E c \in DOMAIN KeyProviders, q \in KeyQueries, l \in Limits :
       LookUp(c, q, l) /\ UNCHANGED searchVars
  \/ \E c \in DOMAIN KeyProviders : StoreAfterMiss(c) /\ UNCHANGED searchVars
  \/ \E c \in DOMAIN KeyProviders : FetchReturn(c) /\ UNCHANGED searchVars
  \/ LoadExists /\ UNCHANGED searchVars
  \/ \E c \in DOMAIN KeyProviders : ResumeCall(c) /\ UNCHANGED searchVars
  \/ \E c \in DOMAIN KeyProviders : AwaitWrite(c) /\ UNCHANGED searchVars
  \/ \E i \in 1 .. MaxPersist : i <= Len(writeTasks) /\ WriteStart(i) /\ UNCHANGED searchVars
  \/ \E i \in 1 .. MaxPersist : i <= Len(writeTasks) /\ WriteOk(i) /\ UNCHANGED searchVars

SpecKeys == Init /\ [][NextKeys]_vars

\* C31 as stated: a cache lookup made for provider P, query Q and limit L returns
\* only a list that was stored for that same (P, Q, L).
C31_HitIsOwnTriple ==
  \A c \in DOMAIN KeyProviders :
    (calls[c].op = "get" /\ calls[c].stage = "returned" /\ calls[c].hit) =>
      calls[c].value = ProviderAnswer(AskedBy(c))

\* C31, second half: two different triples never share a cache entry
C31_KeysDistinct ==
  \A t1, t2 \in Triples : KeyOf(t1) = KeyOf(t2) => t1 = t2

\* the part that holds: the triples of one provider have different keys
C31_KeysDistinctPerProvider ==
  \A t1, t2 \in Triples : (t1.pluginId = t2.pluginId /\ KeyOf(t1) = KeyOf(t2)) => t1 = t2

\* ------------------------------------------------- cancelled searches
\* Two searches in a row for the same query, either of which the caller may cancel,
\* over a storage whose entries do not expire.
NextCancel ==
  \/ LoadExists /\ UNCHANGED searchVars
  \/ \E c \in CallerIds : ResumeCall(c) /\ UNCHANGED searchVars
  \/ \E i \in 1 .. MaxPersist : i <= Len(writeTasks) /\ WriteStart(i) /\ UNCHANGED searchVars
  \/ \E i \in 1 .. MaxPersist : i <= Len(writeTasks) /\ WriteOk(i) /\ UNCHANGED searchVars
  \/ searchNo < MaxSearches /\ StartSearch("q", Undefined, "relevance", "fresh")
  \/ \E i \in CallerIds : FetchAfterGet(i)
  \/ \E i \in CallerIds : ProviderResolve(i)
  \/ \E i \in CallerIds : FetchAfterSet(i)
  \/ Abort
  \/ Resume
  \/ Pull

InitCancel ==
  /\ InitStorage
  /\ plugins = RegistryRepeat
  /\ InitSearch
  /\ disk = AbsentFile
  /\ ttlMs = 0

SpecCancel == InitCancel /\ [][NextCancel]_vars

\* storePluginResultsInCache begins for task i in this step
StoreBegins(i) ==
  /\ i \in DOMAIN tasks'
  /\ tasks'[i].status = "cacheSet"
  /\ (i \notin DOMAIN tasks \/ tasks[i].status # "cacheSet")

\* C32 as stated: after the caller cancels a search, no cache entry is written from
\* a provider call that returned after the cancellation.
C32_NoStoreAfterCancel ==
  [][\A i \in CallerIds : StoreBegins(i) => ~ctrlAborted]_vars

\* C32, the consequence: the search after a cancelled one invokes the providers
\* again instead of being answered from the cache, so when it finishes uncancelled
\* no provider that finds something for the query has contributed the empty list
\* that it answers to a cancelled call.
C32_InvokedAgain ==
  (searchNo = 2 /\ genState = "done" /\ extSignal = "fresh") =>
    \A i \in DOMAIN tasks :
      (tasks[i].status = "fulfilled" /\ tasks[i].results = <<>>) =>
        ProviderData(enabledPlugins[i]) = <<>>

\* ------------------------------------------------- the registry during a search
\* One search, while a client enables, disables and toggles providers at any moment.
NextToggle ==
  \/ LoadExists /\ UNCHANGED searchVars
  \/ \E c \in CallerIds : ResumeCall(c) /\ UNCHANGED searchVars
  \/ \E i \in 1 .. MaxPersist : i <= Len(writeTasks) /\ WriteStart(i) /\ UNCHANGED searchVars
  \/ \E i \in 1 .. MaxPersist : i <= Len(writeTasks) /\ WriteOk(i) /\ UNCHANGED searchVars
  \/ searchNo < 1 /\ StartSearch("q", Undefined, "relevance", "fresh")
  \/ \E i \in CallerIds : FetchAfterGet(i)
  \/ \E i \in CallerIds : ProviderResolve(i)
  \/ \E i \in CallerIds : ProviderReject(i)
  \/ \E i \in CallerIds : FetchAfterSet(i)
  \/ Resume
  \/ Pull
  \/ \E id \in PluginIds, b \in BOOLEAN :
       ManagerCall("setEnabled", id, [enabled |-> b], setEnabledCall(plugins, id, b))
  \/ \E id \in PluginIds : ManagerCall("toggle", id, [id |-> id], toggle(plugins, id))

SpecToggle == Init /\ [][NextToggle]_vars

\* the ids of the registrations whose enabled flag is set, in registration order
EnabledNow ==
  LET idx == SelectSeq([i \in 1 .. Len(plugins) |-> i], LAMBDA i : plugins[i].enabled)
  IN [k \in 1 .. Len(idx) |-> plugins[idx[k]].id]

\* the providers that have taken part in the search: those with a fetch task
TakingPart == [i \in DOMAIN tasks |-> enabledPlugins[i]]

\* C36: the providers that take part in a search are exactly those enabled when
\* it starts: the search starts one fetch per provider enabled at that moment, a
\* provider is invoked only if it is one of them, and the finished search has
\* processed the completion of each; a step that enables, disables or toggles a
\* provider during the search starts no fetch and removes no pending completion.
C36_EnabledAtStartTakePart ==
  /\ [][(searchNo' # searchNo) => TakingPart' = EnabledNow]_vars
  /\ [][(searchNo' = searchNo) => TakingPart' = TakingPart]_vars
  /\ [][(plugins' # plugins) =>
          /\ [i \in DOMAIN tasks |-> tasks[i].status] = [i \in DOMAIN tasks' |-> tasks'[i].status]
          /\ pending' = pending
          /\ searchCalls' = searchCalls
          /\ calls' = calls]_vars
  /\ [](\A id \in PluginIds : searchCalls[id] > 0 => id \in Range(TakingPart))
  /\ []((searchNo = 1 /\ genState = "done") =>
          /\ pending = {}
          /\ Range(foldOrder) = DOMAIN tasks)

\* the search is under way, some completions are still pending, and the registry no
\* longer has the enabled set the search started with
C36_Witness ==
  /\ genState = "racing"
  /\ settleOrder # <<>>
  /\ pending # {}
  /\ Len(TakingPart) = 3
  /\ outcome.op = "toggle"
  /\ EnabledNow = <<"gamma">>

C36_WitnessDone ==
  /\ genState = "done"
  /\ Len(TakingPart) = 2
  /\ Len(EnabledNow) = 3
  /\ Len(foldOrder) = 2

\* ------------------------------------------------- failing providers
\* Two searches in a row for the same query and limit, in which a provider's search
\* operation may fail, over a storage that starts empty and whose entries do not
\* expire.
NextRetry ==
  \/ LoadExists /\ UNCHANGED searchVars
  \/ \E c \in CallerIds : ResumeCall(c) /\ UNCHANGED searchVars
  \/ \E i \in 1 .. MaxPersist : i <= Len(writeTasks) /\ WriteStart(i) /\ UNCHANGED searchVars
  \/ \E i \in 1 .. MaxPersist : i <= Len(writeTasks) /\ WriteOk(i) /\ UNCHANGED searchVars
  \/ searchNo < MaxSearches /\ StartSearch("q", Undefined, "relevance", "fresh")
  \/ \E i \in CallerIds : FetchAfterGet(i)
  \/ \E i \in CallerIds : ProviderResolve(i)
  \/ \E i \in CallerIds : ProviderReject(i)
  \/ \E i \in CallerIds : FetchAfterSet(i)
  \/ Resume
  \/ Pull

SpecRetry == InitCancel /\ [][NextRetry]_vars

\* the provider's search operation fails for task i in this step
SearchFails(i) ==
  /\ i \in DOMAIN tasks
  /\ tasks[i].status = "searching"
  /\ tasks'[i].status # "searching"
  /\ tasks'[i].status # "cacheSet"

\* task i's provider has not succeeded for this query and limit in an earlier search
FailedBefore(i) ==
  /\ searchNo = 2
  /\ \A s \in succeeded :
       ~(s.id = enabledPlugins[i] /\ s.query = opts.query /\ s.limit = opts.limit)

\* C37: when a provider's search operation fails, the step creates or changes no
\* cache entry and begins no storage call or write, and the fetch is rejected, so
\* that a rejected fetch has no entry and every entry holds what its provider
\* answered; in the next search for the same query and limit the fetch of a provider that failed
\* before leaves its cache lookup by invoking the provider again.
C37_FailureStoresNothing ==
  /\ [][\A i \in CallerIds :
          SearchFails(i) =>
            /\ tasks'[i].status = "rejected"
            /\ entries' = entries
            /\ calls' = calls
            /\ writeTasks' = writeTasks
            /\ disk' = disk]_vars
  /\ [](\A i \in DOMAIN tasks :
          tasks[i].status = "rejected" =>
            getCacheKey(enabledPlugins[i], opts.query, opts.limit) \notin DOMAIN entries)
  /\ [](\A id \in PluginIds :
          LET key == getCacheKey(id, opts.query, opts.limit)
          IN key \in DOMAIN entries =>
               entries[key].value = Take(ProviderData(id), opts.limit))
  /\ [][\A i \in DOMAIN tasks :
          (FailedBefore(i) /\ tasks[i].status = "cacheGet" /\ tasks'[i] # tasks[i]) =>
            /\ tasks'[i].status = "searching"
            /\ searchCalls'[enabledPlugins[i]] = searchCalls[enabledPlugins[i]] + 1]_vars

\* in the second search the provider that failed in the first is invoked again,
\* while the other one is answered from the cache
C37_Witness ==
  /\ searchNo = 2
  /\ succeeded # {}
  /\ \E i \in DOMAIN tasks :
       /\ FailedBefore(i)
       /\ tasks[i].status = "searching"
       /\ searchCalls[enabledPlugins[i]] = 2
  /\ \E i \in DOMAIN tasks : ~FailedBefore(i) /\ searchCalls[enabledPlugins[i]] = 1

\* ------------------------------------------------- writes after a failed write
RECURSIVE ChainedBehind(_, _)
\* write task j waits, directly or through the tasks before it, on write task i
ChainedBehind(j, i) ==
  LET pred == writeTasks[j].pred
  IN IF pred = 0 THEN FALSE ELSE IF pred = i THEN TRUE ELSE ChainedBehind(pred, i)

\* the write tasks of the persist calls issued after a write had failed: the later
\* tasks that are not queued behind the failed one
IssuedAfterFailure ==
  {j \in DOMAIN writeTasks :
     \E i \in DOMAIN writeTasks :
       writeTasks[i].state = "failed" /\ j > i /\ ~ChainedBehind(j, i)}

Writing == {k \in DOMAIN writeTasks : writeTasks[k].state = "writing"}

\* C38 as stated: after a write of the cache file fails, a set or eviction issued
\* afterwards starts a new write that is neither skipped nor rejected because of
\* the earlier failure, and that never overlaps another write.
C38_ChainRecovers ==
  \A j \in IssuedAfterFailure :
    /\ writeTasks[j].state \notin {"skipped", "failed"}
    /\ j \in Writing => Writing = {j}

\* the part that holds: a write issued after the failure is neither skipped nor
\* rejected, and once begun it carries the entry table of the moment it began
C38_NotSkipped ==
  \A j \in IssuedAfterFailure : writeTasks[j].state \notin {"skipped", "failed"}

C38_Reached ==
  \E j \in IssuedAfterFailure : writeTasks[j].state = "ok" /\ disk.writer = j

\* ------------------------------------------------- the App component
MaxUiSearches == 3

UiQueries == {"q", "tie"}

\* appReducer
appReducer(state, action) ==
  IF action.type = "search/start"
  THEN [state EXCEPT !.query = action.query, !.isLoading = TRUE,
                     !.errorMessage = NoMessage, !.feedback = NoMessage,
                     !.pluginErrors = <<>>]
  ELSE IF action.type = "search/success"
  THEN [state EXCEPT !.isLoading = FALSE,
                     !.results = sorting_sortResults(action.results, state.sortOrder),
                     !.pluginErrors = action.errors,
                     !.errorMessage = NoMessage]
  ELSE IF action.type = "feedback/set"
  THEN [state EXCEPT !.feedback = action.feedback]
  ELSE state

\* what backend.search(query) has aggregated when every provider has answered
FoundFor(query) ==
  <<[id |-> 0, url |-> "u1", title |-> query, score |-> 1, timestamp |-> Undefined,
     pluginIds |-> <<"alpha">>, pluginDisplayNames |-> <<"Alpha">>, receivedAt |-> 0]>>

\* The responses backend.search(query, {signal}) can resolve with. It never rejects:
\* a provider's failure and an abort become entries of `errors`. A search whose
\* signal has fired resolves with what had been aggregated, possibly everything
\* when the providers ignore the signal.
Responses(query, aborted) ==
  IF aborted
  THEN {[results |-> r, errors |-> <<[pluginId |-> "beta", error |-> AbortReason]>>] :
          r \in {<<>>, FoundFor(query)}}
  ELSE {[results |-> FoundFor(query), errors |-> <<>>],
        [results |-> FoundFor(query),
         errors |-> <<[pluginId |-> "beta", error |-> ProviderFailure]>>],
        [results |-> <<>>, errors |-> <<>>]}

NoResponse == [results |-> <<>>, errors |-> <<>>]

\* performSearch(rawQuery) up to `await backend.search(...)`
performSearch(query) ==
  /\ Len(searches) < MaxUiSearches
  /\ searches' =
       Append([n \in DOMAIN searches |->
                 IF n = abortControllerRef THEN [searches[n] EXCEPT !.aborted = TRUE]
                 ELSE searches[n]],
              [query |-> query, aborted |-> FALSE, stage |-> "awaiting",
               response |-> NoResponse])
  /\ abortControllerRef' = Len(searches) + 1
  /\ appState' = appReducer(appState, [type |-> "search/start", query |-> query])
  /\ UNCHANGED <<cacheVars, backendVars>>

\* handleSearchResponse(response), then the feedback for an empty response
afterResponse(state, response) ==
  LET shown == appReducer(state, [type |-> "search/success", results |-> response.results,
                                  errors |-> response.errors])
  IN IF response.results = <<>>
     THEN appReducer(shown, [type |-> "feedback/set",
                             feedback |-> "No results found. Try another query."])
     ELSE shown

\* performSearch after `await backend.search(...)` of call n has resolved
SearchResolved(n, response) ==
  /\ n \in DOMAIN searches
  /\ searches[n].stage = "awaiting"
  /\ response \in Responses(searches[n].query, searches[n].aborted)
  /\ searches' = [searches EXCEPT ![n].stage = "settled", ![n].response = response]
  /\ appState' = afterResponse(appState, response)
  /\ UNCHANGED <<abortControllerRef, cacheVars, backendVars>>

AllResponses == UNION {Responses(q, a) : q \in UiQueries, a \in BOOLEAN}

NextUi ==
  \/ \E q \in UiQueries : performSearch(q)
  \/ \E n \in 1 .. MaxUiSearches, r \in AllResponses : SearchResolved(n, r)

SpecUi == Init /\ [][NextUi]_vars

\* what the App shows for a response
Shown(response) == sorting_sortResults(response.results, appState.sortOrder)

\* C39 as stated: when a new search is started while an earlier one is running the
\* earlier one is aborted; the late response of an earlier search never replaces
\* the results, errors or loading flag of the newer search; once all searches have
\* settled the displayed results are those of the most recently started search.
C39_LatestSearchWins ==
  /\ [](\A n \in DOMAIN searches : n # abortControllerRef => searches[n].aborted)
  /\ [][\A n \in DOMAIN searches :
          (n # abortControllerRef /\ searches[n].stage = "awaiting"
             /\ searches'[n].stage = "settled") =>
            /\ appState'.results = appState.results
            /\ appState'.pluginErrors = appState.pluginErrors
            /\ appState'.isLoading = appState.isLoading]_vars
  /\ []((searches # <<>> /\ \A n \in DOMAIN searches : searches[n].stage = "settled") =>
          /\ appState.results = Shown(searches[abortControllerRef].response)
          /\ appState.pluginErrors = searches[abortControllerRef].response.errors)

\* the part that holds: starting a search aborts the one before it
C39_EarlierIsAborted ==
  \A n \in DOMAIN searches : n # abortControllerRef => searches[n].aborted

\* all searches have settled and the App shows the results of an aborted one
C39_StaleShown ==
  /\ Len(searches) = 2
  /\ \A n \in DOMAIN searches : searches[n].stage = "settled"
  /\ searches[1].query # searches[2].query
  /\ searches[2].response.results # <<>>
  /\ appState.results = Shown(searches[1].response)
  /\ appState.results # Shown(searches[2].response)

====
